---- MODULE Spec2Model ----
(***************************************************************************)
(* Emotion-Backend: the audio prediction pipeline of routes/audio.py,      *)
(* services/audio_service.py and services/prediction_service.py, and, each *)
(* under a specification of its own, the loading of the models             *)
(* (utils/constants.py), predict_emotion and the primary emotion,          *)
(* generate_spectrogram, the timer of the storage pipeline, the access     *)
(* tokens of middleware/auth.py and services/rate_limiting_service.py.     *)
(*                                                                         *)
(* A request handler is an asyncio coroutine: it runs without interruption *)
(* between two awaits, and other requests run while it awaits.  Every      *)
(* action of Spec is one such uninterrupted stretch of a handler.          *)
(***************************************************************************)
EXTENDS Integers, Sequences, FiniteSets, TLC

\* Number of requests the server receives in a run.
NumRequests == 2

Requests == 1..NumRequests

----------------------------------------------------------------------------
(* utils/constants.py, routes/audio.py: program constants *)

SAMPLE_RATE == 22050

EMOTION_LABELS == <<"angry", "disgust", "fear", "happy", "neutral", "sad">>

allowed_extensions ==
    { <<".", "w", "a", "v">>, <<".", "m", "p", "3">>, <<".", "f", "l", "a", "c">>,
      <<".", "o", "g", "g">>, <<".", "m", "4", "a">>, <<".", "a", "a", "c">>,
      <<".", "w", "e", "b", "m">> }

\* 50 * 1024 * 1024
MAX_UPLOAD_BYTES == 52428800

\* f.read(16) in _is_webm_file and in load_audio's diagnostics
HEADER_BYTES == 16

\* b'\x1a\x45\xdf\xa3'
WEBM_MAGIC == <<26, 69, 223, 163>>

\* request.duration or 3
DEFAULT_DURATION == 3

----------------------------------------------------------------------------
(* Strings are sequences of one-character strings. *)

UPPERCASE ==
    <<"A", "B", "C", "D", "E", "F", "G", "H", "I", "J", "K", "L", "M",
      "N", "O", "P", "Q", "R", "S", "T", "U", "V", "W", "X", "Y", "Z">>

LOWERCASE ==
    <<"a", "b", "c", "d", "e", "f", "g", "h", "i", "j", "k", "l", "m",
      "n", "o", "p", "q", "r", "s", "t", "u", "v", "w", "x", "y", "z">>

LowerChar(c) ==
    IF \E i \in DOMAIN UPPERCASE : UPPERCASE[i] = c
    THEN LOWERCASE[CHOOSE i \in DOMAIN UPPERCASE : UPPERCASE[i] = c]
    ELSE c

\* str.lower()
Lower(s) == [i \in DOMAIN s |-> LowerChar(s[i])]

\* str.rfind(c), 1-based, 0 when c does not occur
RFind(s, c) ==
    IF \E i \in DOMAIN s : s[i] = c
    THEN CHOOSE i \in DOMAIN s : s[i] = c /\ \A j \in DOMAIN s : s[j] = c => j <= i
    ELSE 0

\* os.path.splitext(p)[1]: the part from the last dot of the last path
\* component, empty when that component has no dot or only leading dots.
SplitExt(p) ==
    LET sepIndex == RFind(p, "/")
        dotIndex == RFind(p, ".")
    IN  IF dotIndex > sepIndex
           /\ \E k \in (sepIndex + 1)..(dotIndex - 1) : p[k] # "."
        THEN SubSeq(p, dotIndex, Len(p))
        ELSE <<>>

\* bytes.startswith(prefix)
StartsWith(b, prefix) ==
    /\ Len(b) >= Len(prefix)
    /\ SubSeq(b, 1, Len(prefix)) = prefix

Min(a, b) == IF a < b THEN a ELSE b
Max(a, b) == IF a > b THEN a ELSE b

----------------------------------------------------------------------------
(* Files.  A file's content is its length and its first HEADER_BYTES       *)
(* bytes; nothing the handlers do depends on more of it than the decoder   *)
(* model below reads.                                                      *)

NoFile == [hdr |-> <<>>, size |-> -1]

EmptyContent == [hdr |-> <<>>, size |-> 0]

\* "RIFF" <len> "WAVE" "fmt "
RIFF_HEADER == <<82, 73, 70, 70, 36, 0, 0, 0, 87, 65, 86, 69, 102, 109, 116, 32>>

\* bytes of a canonical PCM WAV file before the first sample
WAV_DATA_OFFSET == 44

\* bytes per sample of 16-bit mono PCM (pcm_s16le, -ac 1)
BYTES_PER_SAMPLE == 2

WavFile(samples) ==
    [hdr |-> RIFF_HEADER, size |-> WAV_DATA_OFFSET + BYTES_PER_SAMPLE * samples]

\* The uploads a client sends.
EmptyUpload == EmptyContent
WavUpload == WavFile(4)
SilentWavUpload == WavFile(0)
GarbageUpload == [hdr |-> <<26, 69, 223>>, size |-> 3]
WebmUpload == [hdr |-> WEBM_MAGIC \o <<159, 66, 134, 129>>, size |-> 8]
HugeUpload == [hdr |-> RIFF_HEADER, size |-> MAX_UPLOAD_BYTES + 1]

Payloads ==
    {EmptyUpload, WavUpload, SilentWavUpload, GarbageUpload, WebmUpload, HugeUpload}

\* The names a client gives its uploads.
FileNames ==
    { <<"a", ".", "w", "a", "v">>,
      <<"B", ".", "W", "e", "b", "M">>,
      <<"c", ".", "x", "y", "z">>,
      <<"d">>,
      <<>> }

\* Bytes written at offset 0 of a file that already holds `old`.
Overlay(old, new) ==
    [hdr  |-> new.hdr \o SubSeq(old.hdr, Len(new.hdr) + 1, Len(old.hdr)),
     size |-> Max(old.size, new.size)]

----------------------------------------------------------------------------
(* State *)

VARIABLES
    extractor,             \* utils.constants.extractor: "loaded" or "None"
    svm_model,             \* utils.constants.svm_model: "loaded" or "None"
    SOUNDDEVICE_AVAILABLE, \* audio_service.SOUNDDEVICE_AVAILABLE
    fs,                    \* staged uploads: filename -> content of temp_<filename>
    wavFiles,              \* requests whose mkstemp'ed .wav file is on disk
    predictions,           \* rows of the predictions table, in commit order
    mongo,                 \* documents of the MongoDB predictions collection
    req,                   \* per request: position in its handler, input, result
    boot,                  \* import of utils/constants.py: the statement it is at
    classify,              \* one call of predict_emotion and the selection of the primary emotion
    spectrogram,           \* one call of generate_spectrogram
    timing,                \* one call of process_audio_for_prediction_with_storage, with its clock
    auth,                  \* users table, issued tokens, clock of middleware/auth.py
    limiter                \* Redis sorted sets, clock and admissions of check_rate_limit

\* The state of the components that are modelled on their own further down;
\* the handlers of routes/audio.py touch none of it.
components == <<boot, classify, spectrogram, timing, auth, limiter>>

vars ==
    <<extractor, svm_model, SOUNDDEVICE_AVAILABLE, fs, wavFiles,
      predictions, mongo, req, components>>

----------------------------------------------------------------------------
(* Exceptions and results of the service functions *)

NoError == [type |-> "", cause |-> ""]

Raise(type, cause) == [type |-> type, cause |-> cause]

\* How an invocation of ffmpeg ends.
TranscoderOutcomes == {"ok", "nonzero", "timeout", "notfound"}

\* The statement of a request at which the environment raises, if any.
Faults == {"none", "features", "embedding", "classification", "commit", "refresh"}

\* What ffmpeg writes for a decodable input: one sample per input byte.
Transcoded(file) == WavFile(file.size)

\* librosa.load of a file: the number of samples, -1 when it cannot be decoded.
Decode(file) ==
    IF file # NoFile /\ StartsWith(file.hdr, SubSeq(RIFF_HEADER, 1, 4))
       /\ file.size >= WAV_DATA_OFFSET
    THEN (file.size - WAV_DATA_OFFSET) \div BYTES_PER_SAMPLE
    ELSE -1

_is_webm_file_by_name(name, file) ==
    SplitExt(Lower(name)) = <<".", "w", "e", "b", "m">>

\* _is_webm_file: the header starts with the EBML signature; an unreadable
\* file is not WebM.
_is_webm_file(name, file) ==
    file # NoFile /\ StartsWith(SubSeq(file.hdr, 1, Min(Len(file.hdr), HEADER_BYTES)), WEBM_MAGIC)

\* _convert_webm_to_wav: mkstemp has created the output file before ffmpeg
\* runs, and no path removes it.  subprocess.run kills the child on timeout.
_convert_webm_to_wav(file, tx) ==
    CASE tx = "timeout"  -> [ok |-> FALSE, out |-> EmptyContent, killed |-> TRUE,
                             error |-> Raise("TimeoutError", "timeout")]
      [] tx = "notfound" -> [ok |-> FALSE, out |-> EmptyContent, killed |-> FALSE,
                             error |-> Raise("FileNotFoundError", "ffmpeg_missing")]
      [] tx = "nonzero"  -> [ok |-> FALSE, out |-> EmptyContent, killed |-> FALSE,
                             error |-> Raise("RuntimeError", "ffmpeg_failed")]
      [] OTHER           -> [ok |-> TRUE, out |-> Transcoded(file), killed |-> FALSE,
                             error |-> NoError]

\* load_audio(file_path) on a file holding `file`, ffmpeg ending as `tx`.
\*   signal   number of samples returned (-1: raised)
\*   error    the exception raised to the caller
\*   txCalls  invocations of ffmpeg
\*   killed   the ffmpeg child was terminated
\*   wavLeft  the converted .wav file is still on disk when the call ends
load_audio(name, file, tx) ==
    LET webm  == _is_webm_file(name, file)
        conv  == _convert_webm_to_wav(file, tx)
        input == IF webm THEN conv.out ELSE file
        n     == Decode(input)
    IN  IF webm /\ ~conv.ok
        THEN [signal |-> -1, error |-> Raise("ValueError", conv.error.cause),
              txCalls |-> 1, killed |-> conv.killed, wavLeft |-> TRUE]
        ELSE IF n < 0
        THEN [signal |-> -1, error |-> Raise("ValueError", "decode"),
              txCalls |-> IF webm THEN 1 ELSE 0, killed |-> FALSE, wavLeft |-> webm]
        ELSE IF n = 0
        \* signal.min() of an empty array raises inside the try block
        THEN [signal |-> -1, error |-> Raise("ValueError", "empty_signal"),
              txCalls |-> IF webm THEN 1 ELSE 0, killed |-> FALSE, wavLeft |-> webm]
        ELSE [signal |-> n, error |-> NoError,
              txCalls |-> IF webm THEN 1 ELSE 0, killed |-> FALSE, wavLeft |-> FALSE]

----------------------------------------------------------------------------
(* services/prediction_service.py *)

\* predict_proba of the classifier artifact, in permille: a stand-in that
\* depends on the embedding only.
svm_predict_proba(embedding) ==
    IF embedding % 2 = 0
    THEN <<100, 50, 50, 600, 150, 50>>
    ELSE <<50, 50, 700, 50, 100, 50>>

emotion_dict_short(probabilities) ==
    [i \in DOMAIN EMOTION_LABELS |->
        <<EMOTION_LABELS[i], IF i < Len(probabilities) THEN probabilities[i] ELSE 0>>]

\* predict_emotion's loop: the i-th label gets the i-th probability, a label
\* past the end of the vector gets 0.  float() of a probability is the same
\* number.
emotion_dict(probabilities) ==
    [i \in DOMAIN EMOTION_LABELS |->
        <<EMOTION_LABELS[i], IF i <= Len(probabilities) THEN probabilities[i] ELSE 0>>]

\* predict_emotion(embedding) when predict_proba(embedding)[0] is
\* `probabilities`.
predict_emotion(probabilities) ==
    IF svm_model = "None"
    THEN [ok |-> FALSE, emotion |-> <<>>, error |-> Raise("ValueError", "svm_not_loaded")]
    ELSE [ok |-> TRUE, emotion |-> emotion_dict(probabilities), error |-> NoError]

\* process_audio_for_prediction(signal): generate_spectrogram, get_embedding,
\* predict_emotion, the first exception ending the call.
process_audio_for_prediction(signal, fault) ==
    IF fault = "features"
    THEN [ok |-> FALSE, emotion |-> <<>>, error |-> Raise("Exception", "features")]
    ELSE IF extractor = "None"
    THEN [ok |-> FALSE, emotion |-> <<>>, error |-> Raise("ValueError", "cnn_not_loaded")]
    ELSE IF fault = "embedding"
    THEN [ok |-> FALSE, emotion |-> <<>>, error |-> Raise("Exception", "embedding")]
    ELSE IF svm_model = "None"
    THEN [ok |-> FALSE, emotion |-> <<>>, error |-> Raise("ValueError", "svm_not_loaded")]
    ELSE IF fault = "classification"
    THEN [ok |-> FALSE, emotion |-> <<>>, error |-> Raise("Exception", "classification")]
    ELSE [ok |-> TRUE, emotion |-> emotion_dict(svm_predict_proba(signal)),
          error |-> NoError]

primary_emotion_last(emotion) ==
    LET i == CHOOSE k \in DOMAIN emotion :
                 /\ \A j \in DOMAIN emotion : emotion[j][2] <= emotion[k][2]
                 /\ \A j \in (k + 1)..Len(emotion) : emotion[j][2] < emotion[k][2]
    IN  emotion[i]

\* The loop of the builtin max(iterable, key=...): the running maximum starts
\* as the first item and is replaced only by an item whose key is greater.
RECURSIVE py_max(_, _, _)
py_max(items, i, best) ==
    IF i > Len(items) THEN best
    ELSE py_max(items, i + 1, IF items[i][2] > best[2] THEN items[i] ELSE best)

\* max(emotion_probabilities.items(), key=lambda x: x[1]), the items in
\* insertion order.
primary_emotion(emotion) == py_max(emotion, 2, emotion[1])

\* save_prediction_to_mongo: building prediction_doc evaluates
\* datetime.now(datetime.timezone.utc) with `datetime` the class imported by
\* `from datetime import datetime`, which has no attribute timezone, so the
\* call raises before insert_one.
save_prediction_to_mongo(docs, doc) ==
    [ok |-> FALSE, docs |-> docs, error |-> Raise("AttributeError", "datetime.timezone")]

----------------------------------------------------------------------------
(* routes/audio.py *)

NoBody ==
    [filename |-> <<>>, primary |-> "", emotion |-> <<>>, audio_duration |-> <<0, 1>>]

NoOutcome == [status |-> 0, detail |-> "", cause |-> "", body |-> NoBody]

HTTPException(status, detail, cause) ==
    [status |-> status, detail |-> detail, cause |-> cause, body |-> NoBody]

Response(body) == [status |-> 200, detail |-> "OK", cause |-> "", body |-> body]

ExtensionAllowedOrMissing(filename) ==
    \/ SplitExt(Lower(filename)) = <<>>
    \/ SplitExt(Lower(filename)) \in allowed_extensions

\* file_ext = os.path.splitext(audio.filename.lower())[1]; file_ext in allowed_extensions
ExtensionAllowed(filename) == SplitExt(Lower(filename)) \in allowed_extensions

SizeCheckNoEmpty(file_size) ==
    IF file_size > MAX_UPLOAD_BYTES THEN "TooLarge" ELSE "ok"

\* the two size checks of predict_emotion, in their order
SizeCheck(file_size) ==
    IF file_size > MAX_UPLOAD_BYTES THEN "TooLarge"
    ELSE IF file_size = 0 THEN "EmptyInput"
    ELSE "ok"

CommitTwice(rows, row) ==
    LET once == Append(rows, [row EXCEPT !.id = Len(rows) + 1])
    IN  Append(once, [row EXCEPT !.id = Len(once) + 1])

\* db.add(db_prediction); db.commit(): one row, its id assigned by the table
Commit(rows, row) == Append(rows, [row EXCEPT !.id = Len(rows) + 1])

\* The block "Save prediction to database" and the return of a handler:
\* db.add, db.commit, db.refresh, the response.  An exception before the
\* commit leaves no row (get_db closes the session); one after it leaves the
\* committed row.
Persist(rows, row, fault, failure, body) ==
    IF fault = "commit"
    THEN [rows |-> rows, outcome |-> HTTPException(500, failure, "commit")]
    ELSE IF fault = "refresh"
    THEN [rows |-> Commit(rows, row), outcome |-> HTTPException(500, failure, "refresh")]
    ELSE [rows |-> Commit(rows, row), outcome |-> Response(body)]

NoLoad ==
    [signal |-> -1, error |-> NoError, txCalls |-> 0, killed |-> FALSE, wavLeft |-> FALSE]

\* predict_emotion from "Verify file was saved correctly" to its return, for
\* the request r that uploaded file_size bytes as `name`, with `file` what
\* temp_<name> holds now (NoFile: no such file).
PredictTail(r, name, file_size, file, tx, fault, rows) ==
    LET la == load_audio(name, file, tx)
        p  == process_audio_for_prediction(la.signal, fault)
        row == [id |-> 0, req |-> r, filename |-> name, emotion |-> p.emotion,
                audio_duration |-> <<la.signal, SAMPLE_RATE>>, model_type |-> "hybrid"]
        \* PredictionResponse.from_orm(db_prediction)
        body == [filename |-> name, primary |-> "", emotion |-> p.emotion,
                 audio_duration |-> <<la.signal, SAMPLE_RATE>>]
        saved == Persist(rows, row, fault, "ProcessingFailed", body)
    IN  IF file = NoFile
        THEN [rows |-> rows, load |-> NoLoad, loaded |-> NoFile,
              outcome |-> HTTPException(500, "SaveFailed", "")]
        ELSE IF file.size # file_size
        THEN [rows |-> rows, load |-> NoLoad, loaded |-> NoFile,
              outcome |-> HTTPException(500, "SizeMismatch", "")]
        ELSE IF la.signal < 0
        THEN [rows |-> rows, load |-> la, loaded |-> file,
              outcome |-> HTTPException(500, "ProcessingFailed", la.error.cause)]
        ELSE IF la.signal = 0
        THEN [rows |-> rows, load |-> la, loaded |-> file,
              outcome |-> HTTPException(400, "EmptyAudio", "")]
        ELSE IF ~p.ok
        THEN [rows |-> rows, load |-> la, loaded |-> file,
              outcome |-> HTTPException(500, "ProcessingFailed", p.error.cause)]
        ELSE [rows |-> saved.rows, load |-> la, loaded |-> file,
              outcome |-> saved.outcome]

----------------------------------------------------------------------------
(* Requests *)

\* The inputs of the two handlers without an upload.
Durations == {0, 2}
Signals == {4}

Idle ==
    [pc |-> "idle", kind |-> "", filename |-> <<>>, content |-> NoFile,
     duration |-> 0, fd |-> "none", buffered |-> FALSE, staged |-> FALSE,
     recorded |-> FALSE, loaded |-> NoFile, tx |-> "", txCalls |-> 0,
     killed |-> FALSE, ingestErr |-> NoError, outcome |-> NoOutcome]

\* A component that takes no part in the specification at hand.
Unused == [pc |-> "unused"]

\* utils/constants.py has been imported: the server is accepting requests.
Serving == [pc |-> "serving"]

\* Requests are numbered in the order the server receives them.
Arrives(r) ==
    /\ req[r].pc = "idle"
    /\ \A q \in Requests : q < r => req[q].pc # "idle"

Init ==
    /\ extractor \in {"loaded", "None"}
    /\ svm_model \in {"loaded", "None"}
    /\ SOUNDDEVICE_AVAILABLE \in BOOLEAN
    /\ fs = [n \in FileNames |-> NoFile]
    /\ wavFiles = {}
    /\ predictions = <<>>
    /\ mongo = <<>>
    /\ req = [r \in Requests |-> Idle]
    /\ boot = Serving
    /\ classify = Unused
    /\ spectrogram = Unused
    /\ timing = Unused
    /\ auth = Unused
    /\ limiter = Unused

\* POST /audio/predict up to `await audio.read()`: the filename checks.
ReceivePredict(r, name) ==
    /\ Arrives(r)
    /\ UNCHANGED components
    /\ req' = [req EXCEPT ![r] =
                 IF name = <<>>
                 THEN [@ EXCEPT !.pc = "done", !.kind = "predict", !.filename = name,
                                !.outcome = HTTPException(400, "NoFile", "")]
                 ELSE IF ~ExtensionAllowed(name)
                 THEN [@ EXCEPT !.pc = "done", !.kind = "predict", !.filename = name,
                                !.outcome = HTTPException(400, "UnsupportedFormat", "")]
                 ELSE [@ EXCEPT !.pc = "reading", !.kind = "predict", !.filename = name]]
    /\ UNCHANGED <<extractor, svm_model, SOUNDDEVICE_AVAILABLE, fs, wavFiles,
                   predictions, mongo>>

\* `content = await audio.read()` returns; the size checks; aiofiles.open is
\* awaited.
ReadUpload(r, payload) ==
    /\ req[r].pc = "reading"
    /\ UNCHANGED components
    /\ req' = [req EXCEPT ![r] =
                 IF SizeCheck(payload.size) = "ok"
                 THEN [@ EXCEPT !.pc = "opening", !.content = payload]
                 ELSE [@ EXCEPT !.pc = "done", !.content = payload,
                                !.outcome = HTTPException(400, SizeCheck(payload.size), "")]]
    /\ UNCHANGED <<extractor, svm_model, SOUNDDEVICE_AVAILABLE, fs, wavFiles,
                   predictions, mongo>>

\* aiofiles.open(temp_path, "wb"): temp_<filename> is created, or truncated
\* when it exists.
OpenTemp(r) ==
    /\ req[r].pc = "opening"
    /\ UNCHANGED components
    /\ fs' = [fs EXCEPT ![req[r].filename] = EmptyContent]
    /\ req' = [req EXCEPT ![r] = [@ EXCEPT !.pc = "writing", !.fd = "open",
                                            !.staged = TRUE]]
    /\ UNCHANGED <<extractor, svm_model, SOUNDDEVICE_AVAILABLE, wavFiles,
                   predictions, mongo>>

\* The file after request r's bytes reach it through r's descriptor, which
\* starts at offset 0.  A descriptor whose file was removed writes to a file
\* no path names.
Flushed(r) ==
    IF req[r].fd = "open"
    THEN [fs EXCEPT ![req[r].filename] = Overlay(@, req[r].content)]
    ELSE fs

\* `await buffer.write(content)`: the buffered writer passes the bytes on at
\* once (direct) or keeps them until it is closed.
WriteTemp(r, direct) ==
    /\ req[r].pc = "writing"
    /\ UNCHANGED components
    /\ fs' = IF direct THEN Flushed(r) ELSE fs
    /\ req' = [req EXCEPT ![r] = [@ EXCEPT !.pc = "closing", !.buffered = ~direct]]
    /\ UNCHANGED <<extractor, svm_model, SOUNDDEVICE_AVAILABLE, wavFiles,
                   predictions, mongo>>

\* Leaving `async with`: the writer is flushed and closed.
CloseTemp(r) ==
    /\ req[r].pc = "closing"
    /\ UNCHANGED components
    /\ fs' = IF req[r].buffered THEN Flushed(r) ELSE fs
    /\ req' = [req EXCEPT ![r] = [@ EXCEPT !.pc = "verifying", !.fd = "none",
                                            !.buffered = FALSE]]
    /\ UNCHANGED <<extractor, svm_model, SOUNDDEVICE_AVAILABLE, wavFiles,
                   predictions, mongo>>

\* cleanup_temp_file(temp_<name>) by request r: the file is removed when it
\* exists, and the descriptors other requests hold on it lose their path.
Unlinked(r, name, reqs) ==
    [q \in Requests |->
        IF q # r /\ reqs[q].filename = name /\ reqs[q].fd = "open"
        THEN [reqs[q] EXCEPT !.fd = "unlinked"]
        ELSE reqs[q]]

\* predict_emotion from the saved-file checks to the end: load_audio, the
\* pipeline, the database row, the response, and the finally block.
FinishPredict(r, tx, fault) ==
    /\ req[r].pc = "verifying"
    /\ UNCHANGED components
    /\ LET name == req[r].filename
           t    == PredictTail(r, name, req[r].content.size, fs[name], tx, fault,
                               predictions)
       IN  /\ predictions' = t.rows
           /\ wavFiles' = IF t.load.wavLeft THEN wavFiles \cup {r} ELSE wavFiles
           /\ fs' = [fs EXCEPT ![name] = NoFile]
           /\ req' = Unlinked(r, name,
                        [req EXCEPT ![r] =
                            [@ EXCEPT !.pc = "done", !.outcome = t.outcome,
                                      !.loaded = t.loaded,
                                      !.tx = IF t.load.txCalls > 0 THEN tx ELSE "",
                                      !.txCalls = t.load.txCalls,
                                      !.killed = t.load.killed,
                                      !.ingestErr = t.load.error]])
    /\ UNCHANGED <<extractor, svm_model, SOUNDDEVICE_AVAILABLE, mongo>>

\* POST /audio/record-voice: the handler awaits nothing, so it runs from its
\* first statement to its finally block without interruption.
VoiceResult(r, duration, fault, rows) ==
    LET seconds == IF duration = 0 THEN DEFAULT_DURATION ELSE duration
        recording == seconds * SAMPLE_RATE
        unavailable == extractor = "None" \/ svm_model = "None"
        p == process_audio_for_prediction(recording, fault)
        row == [id |-> 0, req |-> r, filename |-> <<"voice_recording">>,
                emotion |-> p.emotion, audio_duration |-> <<seconds, 1>>,
                model_type |-> "hybrid"]
        \* VoiceRecordingResponse(emotion=primary_emotion, audio_duration=duration)
        body == [filename |-> <<>>, primary |-> primary_emotion(p.emotion)[1],
                 emotion |-> <<>>, audio_duration |-> <<seconds, 1>>]
        saved == Persist(rows, row, fault, "VoiceFailed", body)
    IN  IF ~SOUNDDEVICE_AVAILABLE
        \* record_audio raises OSError
        THEN [rows |-> rows, recorded |-> FALSE,
              outcome |-> HTTPException(500, "VoiceFailed", "no_microphone")]
        ELSE IF unavailable
        \* HTTPException(503) is raised inside the try block, whose
        \* `except Exception` turns it into a 500
        THEN [rows |-> rows, recorded |-> TRUE,
              outcome |-> HTTPException(500, "VoiceFailed", "models_not_loaded")]
        ELSE IF ~p.ok
        THEN [rows |-> rows, recorded |-> TRUE,
              outcome |-> HTTPException(500, "VoiceFailed", p.error.cause)]
        ELSE [rows |-> saved.rows, recorded |-> TRUE, outcome |-> saved.outcome]

RecordVoice(r, duration, fault) ==
    /\ Arrives(r)
    /\ UNCHANGED components
    /\ LET v == VoiceResult(r, duration, fault, predictions)
       IN  /\ predictions' = v.rows
           \* save_audio_temp writes temp_voice_*.wav and the finally block
           \* removes it
           /\ req' = [req EXCEPT ![r] =
                        [@ EXCEPT !.pc = "done", !.kind = "record",
                                  !.duration = duration,
                                  !.recorded = v.recorded, !.staged = v.recorded,
                                  !.outcome = v.outcome]]
    /\ UNCHANGED <<extractor, svm_model, SOUNDDEVICE_AVAILABLE, fs, wavFiles, mongo>>

\* process_audio_for_prediction_with_storage(signal, ...): the pipeline, then
\* save_prediction_to_mongo and update_prediction_processing_time.
StorageResult(r, signal, fault, docs) ==
    LET p == process_audio_for_prediction(signal, fault)
        primary == primary_emotion(p.emotion)
        doc == [req |-> r, emotion |-> primary[1], confidence |-> primary[2],
                processing_time |-> "None"]
        sv == save_prediction_to_mongo(docs, doc)
    IN  IF ~p.ok
        THEN [docs |-> docs, outcome |-> [NoOutcome EXCEPT !.detail = "Raised",
                                                           !.cause = p.error.cause]]
        ELSE IF ~sv.ok
        THEN [docs |-> sv.docs, outcome |-> [NoOutcome EXCEPT !.detail = "Raised",
                                                              !.cause = sv.error.cause]]
        ELSE [docs |-> sv.docs,
              outcome |-> [NoOutcome EXCEPT !.detail = "Returned",
                                            !.body = [NoBody EXCEPT !.emotion = p.emotion]]]

ProcessWithStorage(r, signal, fault) ==
    /\ Arrives(r)
    /\ UNCHANGED components
    /\ LET s == StorageResult(r, signal, fault, mongo)
       IN  /\ mongo' = s.docs
           /\ req' = [req EXCEPT ![r] =
                        [@ EXCEPT !.pc = "done", !.kind = "storage",
                                  !.outcome = s.outcome]]
    /\ UNCHANGED <<extractor, svm_model, SOUNDDEVICE_AVAILABLE, fs, wavFiles,
                   predictions>>

Next ==
    \/ \E r \in Requests, duration \in Durations, fault \in Faults :
          RecordVoice(r, duration, fault)
    \/ \E r \in Requests, name \in FileNames : ReceivePredict(r, name)
    \/ \E r \in Requests, payload \in Payloads : ReadUpload(r, payload)
    \/ \E r \in Requests : OpenTemp(r)
    \/ \E r \in Requests, direct \in BOOLEAN : WriteTemp(r, direct)
    \/ \E r \in Requests : CloseTemp(r)
    \/ \E r \in Requests, tx \in TranscoderOutcomes, fault \in Faults :
          FinishPredict(r, tx, fault)
    \/ \E r \in Requests, signal \in Signals, fault \in Faults :
          ProcessWithStorage(r, signal, fault)

Spec == Init /\ [][Next]_vars

----------------------------------------------------------------------------
(* The components below are specified on their own: the handlers above are  *)
(* at rest while one of them runs.                                         *)

pipeline == <<SOUNDDEVICE_AVAILABLE, fs, wavFiles, predictions, mongo, req>>

\* No request has been received.
AtRest ==
    /\ SOUNDDEVICE_AVAILABLE = TRUE
    /\ fs = [n \in FileNames |-> NoFile]
    /\ wavFiles = {}
    /\ predictions = <<>>
    /\ mongo = <<>>
    /\ req = [r \in Requests |-> Idle]

----------------------------------------------------------------------------
(* predict_emotion and the choice of the primary emotion, on every output   *)
(* the classifier can give.                                                *)

\* Longest classifier output: one entry more than there are labels.
MaxProbabilities == 7

\* The probabilities an entry takes, in permille.
ProbabilityValues == {0, 300, 700}

\* Times the primary emotion is selected from one distribution.
RunsPerInput == 2

ProbabilityVectors ==
    UNION {[1..n -> ProbabilityValues] : n \in 0..MaxProbabilities}

InitClassify ==
    /\ extractor = "loaded"
    /\ svm_model \in {"loaded", "None"}
    /\ AtRest
    /\ classify \in {[pc |-> "input", probabilities |-> v, result |-> Unused,
                       primary |-> <<>>] : v \in ProbabilityVectors}
    /\ boot = Serving
    /\ spectrogram = Unused
    /\ timing = Unused
    /\ auth = Unused
    /\ limiter = Unused

\* emotion_probabilities = predict_emotion(embedding)
PredictEmotion ==
    /\ classify.pc = "input"
    /\ classify' = [classify EXCEPT !.pc = "classified",
                                    !.result = predict_emotion(classify.probabilities)]
    /\ UNCHANGED <<extractor, svm_model, pipeline, boot, spectrogram, timing, auth, limiter>>

\* primary_emotion = max(emotion_probabilities.items(), key=lambda x: x[1])
SelectPrimary ==
    /\ classify.pc = "classified"
    /\ classify.result.ok
    /\ Len(classify.primary) < RunsPerInput
    /\ classify' = [classify EXCEPT
                       !.primary = Append(@, primary_emotion(classify.result.emotion))]
    /\ UNCHANGED <<extractor, svm_model, pipeline, boot, spectrogram, timing, auth, limiter>>

NextClassify ==
    \/ PredictEmotion
    \/ SelectPrimary

SpecClassify == InitClassify /\ [][NextClassify]_vars

----------------------------------------------------------------------------
(* process_audio_for_prediction_with_storage, statement by statement, with  *)
(* the clock time.time() reads.                                            *)

\* Seconds a stage takes.
StageCosts == {0, 1, 2}

\* Readings of the clock when the function is entered.
EntryTimes == {0, 10}

NotYet == -1

InitTiming ==
    /\ extractor \in {"loaded", "None"}
    /\ svm_model \in {"loaded", "None"}
    /\ AtRest
    /\ timing \in {[pc |-> "entry", now |-> t, start_time |-> NotYet,
                     processing_time |-> NotYet, entered |-> NotYet,
                     features_done |-> NotYet, classified |-> NotYet,
                     save_called |-> NotYet, error |-> NoError] : t \in EntryTimes}
    /\ boot = Serving
    /\ classify = Unused
    /\ spectrogram = Unused
    /\ auth = Unused
    /\ limiter = Unused

\* start_time = time.time()
StartTimer ==
    /\ timing.pc = "entry"
    /\ timing' = [timing EXCEPT !.pc = "features", !.start_time = timing.now,
                                !.entered = timing.now]
    /\ UNCHANGED <<extractor, svm_model, pipeline, boot, classify, spectrogram, auth, limiter>>

TimedSpectrogramRestartingTimer(cost) ==
    /\ timing.pc = "features"
    /\ timing' = [timing EXCEPT !.pc = "embedding", !.now = @ + cost,
                                !.start_time = timing.now + cost,
                                !.features_done = timing.now + cost]
    /\ UNCHANGED <<extractor, svm_model, pipeline, boot, classify, spectrogram, auth, limiter>>

\* spectrogram = generate_spectrogram(signal)
TimedSpectrogram(cost) ==
    /\ timing.pc = "features"
    /\ timing' = [timing EXCEPT !.pc = "embedding", !.now = @ + cost,
                                !.features_done = timing.now + cost]
    /\ UNCHANGED <<extractor, svm_model, pipeline, boot, classify, spectrogram, auth, limiter>>

\* embedding = get_embedding(spectrogram)
TimedEmbedding(cost) ==
    /\ timing.pc = "embedding"
    /\ timing' = IF extractor = "None"
                 THEN [timing EXCEPT !.pc = "raised",
                                     !.error = Raise("ValueError", "cnn_not_loaded")]
                 ELSE [timing EXCEPT !.pc = "classification", !.now = @ + cost]
    /\ UNCHANGED <<extractor, svm_model, pipeline, boot, classify, spectrogram, auth, limiter>>

\* emotion_probabilities = predict_emotion(embedding)
\* processing_time = time.time() - start_time
TimedClassification(cost) ==
    /\ timing.pc = "classification"
    /\ timing' = IF svm_model = "None"
                 THEN [timing EXCEPT !.pc = "raised",
                                     !.error = Raise("ValueError", "svm_not_loaded")]
                 ELSE [timing EXCEPT !.pc = "saving", !.now = @ + cost,
                                     !.classified = timing.now + cost,
                                     !.processing_time =
                                         (timing.now + cost) - timing.start_time]
    /\ UNCHANGED <<extractor, svm_model, pipeline, boot, classify, spectrogram, auth, limiter>>

\* prediction_id = await save_prediction_to_mongo(...): it raises, so
\* update_prediction_processing_time and the return are never reached.
TimedSave(cost) ==
    /\ timing.pc = "saving"
    /\ LET sv == save_prediction_to_mongo(mongo, [processing_time |-> "None"])
       IN  /\ mongo' = sv.docs
           /\ timing' = [timing EXCEPT !.pc = "raised", !.now = @ + cost,
                                       !.save_called = timing.now,
                                       !.error = sv.error]
    /\ UNCHANGED <<extractor, svm_model, SOUNDDEVICE_AVAILABLE, fs, wavFiles,
                   predictions, req, boot, classify, spectrogram, auth, limiter>>

NextTiming ==
    \/ StartTimer
    \/ \E cost \in StageCosts : TimedSpectrogram(cost)
    \/ \E cost \in StageCosts : TimedEmbedding(cost)
    \/ \E cost \in StageCosts : TimedClassification(cost)
    \/ \E cost \in StageCosts : TimedSave(cost)

SpecTiming == InitTiming /\ [][NextTiming]_vars

----------------------------------------------------------------------------
(* services/audio_service.py: generate_spectrogram.  An array is its shape  *)
(* and the set of values its elements take; every step below but resize    *)
(* works element by element.                                               *)

\* librosa.feature.melspectrogram(..., n_mels=128, ...)
N_MELS == 128

\* hop_length of librosa's short-time Fourier transform
HOP_LENGTH == 512

\* power_to_db: amin = 1e-10 is -100 dB, top_db = 80
AMIN_DB == -100
TOP_DB == 80

\* 10 * log10 of a power of zero: below every level there is
ZERO_POWER_DB == -1000

target_size == <<150, 120>>

\* Mel-band powers of a waveform, as 10 * log10(power).
PowerLevels == {ZERO_POWER_DB, -120, -60, -20}

\* Numbers of samples of a waveform.
SignalLengths == {1, 511, 512, 2048, 22050, 66150}

SetMax(S) == CHOOSE x \in S : \A y \in S : y <= x
SetMin(S) == CHOOSE x \in S : \A y \in S : x <= y

\* One column per hop, centred frames.
melspectrogram(signal) ==
    [shape |-> <<N_MELS, 1 + signal.samples \div HOP_LENGTH>>, values |-> signal.powers]

\* librosa.power_to_db(S, ref=np.max):
\* 10 log10(max(amin, S)) - 10 log10(max(amin, ref(S))), then nothing below
\* the maximum less top_db.
power_to_db(S) ==
    LET ref == SetMax(S.values)
        log_spec == {Max(AMIN_DB, x) - Max(AMIN_DB, ref) : x \in S.values}
    IN  [shape |-> S.shape,
         values |-> {Max(x, SetMax(log_spec) - TOP_DB) : x \in log_spec}]

resize_rows_only(image, output_shape) ==
    [shape |-> <<output_shape[1], image.shape[2]>>, values |-> image.values]

\* skimage.transform.resize(image, output_shape, ...): the output has the
\* requested shape; interpolation keeps a constant image constant and a
\* varying one varying.
resize(image, output_shape) ==
    [shape |-> output_shape, values |-> image.values]

\* Floating-point division kept as the pair <<dividend, divisor>>: 0/0 is NaN.
IsNaN(q) == q[1] = 0 /\ q[2] = 0

\* (mel_spec_resized - mel_spec_resized.min())
\*     / (mel_spec_resized.max() - mel_spec_resized.min())
mel_spec_normalized(image) ==
    LET lo == SetMin(image.values)
        hi == SetMax(image.values)
    IN  [shape |-> image.shape, values |-> {<<x - lo, hi - lo>> : x \in image.values}]

generate_spectrogram(signal) ==
    LET mel_spec == melspectrogram(signal)
        mel_spec_db == power_to_db(mel_spec)
        mel_spec_resized == resize(mel_spec_db, target_size)
        normalized == mel_spec_normalized(mel_spec_resized)
    IN  [mel_spec_resized |-> mel_spec_resized,
         \* mel_spec_normalized[..., np.newaxis]
         spectrogram |-> [shape |-> normalized.shape \o <<1>>,
                          values |-> normalized.values]]

Waveforms ==
    {[samples |-> n, powers |-> P] :
        n \in SignalLengths, P \in (SUBSET PowerLevels) \ {{}}}

InitSpectrogram ==
    /\ extractor = "loaded"
    /\ svm_model = "loaded"
    /\ AtRest
    /\ spectrogram \in {[pc |-> "input", signal |-> w, result |-> Unused] :
                          w \in Waveforms}
    /\ boot = Serving
    /\ classify = Unused
    /\ timing = Unused
    /\ auth = Unused
    /\ limiter = Unused

\* spectrogram = generate_spectrogram(signal)
GenerateSpectrogram ==
    /\ spectrogram.pc = "input"
    /\ spectrogram' = [spectrogram EXCEPT
                          !.pc = "generated",
                          !.result = generate_spectrogram(spectrogram.signal)]
    /\ UNCHANGED <<extractor, svm_model, pipeline, boot, classify, timing, auth, limiter>>

NextSpectrogram == GenerateSpectrogram

SpecSpectrogram == InitSpectrogram /\ [][NextSpectrogram]_vars

----------------------------------------------------------------------------
(* utils/constants.py: the models are loaded while the module is imported,  *)
(* which main.py does (through routes.audio) before the server accepts a   *)
(* request.                                                                *)

\* How loading one artifact ends: the file is missing, it loads, loading
\* raises ImportError (a package is missing), or it raises something the
\* module does not catch.
LoadOutcomes == {"absent", "loaded", "import_error", "crash"}

InitStartup ==
    /\ extractor = "unbound"
    /\ svm_model = "unbound"
    /\ SOUNDDEVICE_AVAILABLE \in BOOLEAN
    /\ fs = [n \in FileNames |-> NoFile]
    /\ wavFiles = {}
    /\ predictions = <<>>
    /\ mongo = <<>>
    /\ req = [r \in Requests |-> Idle]
    /\ boot = [pc |-> "libraries"]
    /\ classify = Unused
    /\ spectrogram = Unused
    /\ timing = Unused
    /\ auth = Unused
    /\ limiter = Unused

\* from tensorflow.keras.models import load_model; ...; import joblib
ImportLibraries(installed) ==
    /\ boot.pc = "libraries"
    /\ IF installed
       THEN /\ boot' = [pc |-> "extractor"]
            /\ UNCHANGED <<extractor, svm_model>>
       \* except ImportError
       ELSE /\ boot' = [pc |-> "imported"]
            /\ extractor' = "None"
            /\ svm_model' = "None"
    /\ UNCHANGED <<pipeline, classify, spectrogram, timing, auth, limiter>>

\* if extractor_path.exists(): ... extractor = models.Model(...) else: None.
\* A ValueError or TypeError of load_model is answered by rebuilding the
\* network, which also ends with a model.
LoadExtractor(outcome) ==
    /\ boot.pc = "extractor"
    /\ CASE outcome = "absent" ->
              /\ extractor' = "None"
              /\ boot' = [pc |-> "svm"]
              /\ UNCHANGED svm_model
         [] outcome = "loaded" ->
              /\ extractor' = "loaded"
              /\ boot' = [pc |-> "svm"]
              /\ UNCHANGED svm_model
         [] outcome = "import_error" ->
              /\ extractor' = "None"
              /\ svm_model' = "None"
              /\ boot' = [pc |-> "imported"]
         [] OTHER ->
              \* the import of the application fails
              /\ boot' = [pc |-> "crashed"]
              /\ UNCHANGED <<extractor, svm_model>>
    /\ UNCHANGED <<pipeline, classify, spectrogram, timing, auth, limiter>>

\* if svm_path.exists(): svm_model = joblib.load(...) else: None
LoadSvm(outcome) ==
    /\ boot.pc = "svm"
    /\ CASE outcome = "absent" ->
              /\ svm_model' = "None"
              /\ boot' = [pc |-> "imported"]
              /\ UNCHANGED extractor
         [] outcome = "loaded" ->
              /\ svm_model' = "loaded"
              /\ boot' = [pc |-> "imported"]
              /\ UNCHANGED extractor
         [] outcome = "import_error" ->
              /\ extractor' = "None"
              /\ svm_model' = "None"
              /\ boot' = [pc |-> "imported"]
         [] OTHER ->
              /\ boot' = [pc |-> "crashed"]
              /\ UNCHANGED <<extractor, svm_model>>
    /\ UNCHANGED <<pipeline, classify, spectrogram, timing, auth, limiter>>

StartServingBeforeSvm ==
    /\ boot.pc \in {"svm", "imported"}
    /\ boot' = Serving
    /\ UNCHANGED <<extractor, svm_model, pipeline, classify, spectrogram, timing,
                   auth, limiter>>

\* The imports of main.py have returned: the application object exists and
\* the server starts to accept requests.
StartServing ==
    /\ boot.pc = "imported"
    /\ boot' = Serving
    /\ UNCHANGED <<extractor, svm_model, pipeline, classify, spectrogram, timing,
                   auth, limiter>>

\* A step of a request handler.
Serve ==
    /\ boot.pc = "serving"
    /\ Next

NextStartup ==
    \/ \E installed \in BOOLEAN : ImportLibraries(installed)
    \/ \E outcome \in LoadOutcomes : LoadExtractor(outcome)
    \/ \E outcome \in LoadOutcomes : LoadSvm(outcome)
    \/ StartServing
    \/ Serve

SpecStartup == InitStartup /\ [][NextStartup]_vars

----------------------------------------------------------------------------
(* middleware/auth.py: access tokens, POST /auth/token, /auth/users/me.     *)
(* The clock counts minutes.                                               *)

SECRET_KEY == "your-secret-key"

ACCESS_TOKEN_EXPIRE_MINUTES == 60

\* Minutes the clock advances in one step, and the last minute of a run.
TickMinutes == 30
MaxMinutes == 90

\* Tokens issued in a run.
MaxTokens == 2

\* Rows of the users table: the seeded administrator, one registered user,
\* and room for one registration.
UserIds == 1..3

Usernames == {"admin", "alice", "bob"}

NoUser == [id |-> 0, username |-> "", is_active |-> FALSE, is_superuser |-> FALSE]

\* utils/seed_admin.py
SeededAdmin == [id |-> 1, username |-> "admin", is_active |-> TRUE, is_superuser |-> TRUE]

\* jwt.encode(claims, key): the claims, signed with the key
jwt_encode(claims, key) == [sub |-> claims.sub, exp |-> claims.exp, sig |-> key]

\* jwt.decode(token, key): JWTError for a signature made with another key
\* and for an expiry time that has passed.
jwt_decode(token, key, now) ==
    IF token.sig # key THEN [ok |-> FALSE, sub |-> ""]
    ELSE IF token.exp < now THEN [ok |-> FALSE, sub |-> ""]
    ELSE [ok |-> TRUE, sub |-> token.sub]

\* create_access_token(data={"sub": sub}, expires_delta=minutes)
create_access_token(sub, now, minutes) ==
    jwt_encode([sub |-> sub, exp |-> now + minutes], SECRET_KEY)

\* verify_token and verify_token_string: the username, or 401
verify_token_string(token, now) ==
    LET payload == jwt_decode(token, SECRET_KEY, now)
    IN  IF payload.ok
        THEN [status |-> 200, username |-> payload.sub]
        ELSE [status |-> 401, username |-> ""]

\* db.query(User).filter(User.username == username).first()
UserNamed(users, username) ==
    IF \E i \in UserIds : users[i] # NoUser /\ users[i].username = username
    THEN users[CHOOSE i \in UserIds : users[i] # NoUser /\ users[i].username = username]
    ELSE NoUser

\* get_current_active_user: verify_token, get_current_user, the is_active
\* check.
get_current_active_user(users, token, now) ==
    LET v == verify_token_string(token, now)
        user == UserNamed(users, v.username)
    IN  IF v.status # 200 THEN [status |-> 401, user |-> NoUser]
        ELSE IF user = NoUser THEN [status |-> 401, user |-> NoUser]
        ELSE IF ~user.is_active THEN [status |-> 400, user |-> NoUser]
        ELSE [status |-> 200, user |-> user]

NoCall == [op |-> "", token |-> <<>>, status |-> 0, username |-> "", user |-> NoUser]

\* A token signed with a key that is not the server's.
ForgedToken == jwt_encode([sub |-> "admin", exp |-> MaxMinutes], "another-key")

Presented == {i.token : i \in auth.issued} \cup {ForgedToken}

InitAuth ==
    /\ extractor = "loaded"
    /\ svm_model = "loaded"
    /\ AtRest
    /\ auth = [now |-> 0,
               users |-> [i \in UserIds |->
                            CASE i = 1 -> SeededAdmin
                              [] i = 2 -> [id |-> 2, username |-> "alice",
                                           is_active |-> TRUE, is_superuser |-> FALSE]
                              [] OTHER -> NoUser],
               issued |-> {},
               last |-> NoCall]
    /\ boot = Serving
    /\ classify = Unused
    /\ spectrogram = Unused
    /\ timing = Unused
    /\ limiter = Unused

AuthUnchanged ==
    UNCHANGED <<extractor, svm_model, pipeline, boot, classify, spectrogram, timing, limiter>>

\* POST /auth/token: authenticate_user, then a token for user.username
login_for_access_token(username, password_ok) ==
    /\ Cardinality(auth.issued) < MaxTokens
    /\ LET user == UserNamed(auth.users, username)
           token == create_access_token(user.username, auth.now,
                                        ACCESS_TOKEN_EXPIRE_MINUTES)
       IN  auth' = IF user = NoUser \/ ~password_ok
                   THEN [auth EXCEPT !.last = [NoCall EXCEPT !.op = "login",
                                                             !.status = 401]]
                   ELSE [auth EXCEPT
                            !.issued = @ \cup {[token |-> token, uid |-> user.id]},
                            !.last = [NoCall EXCEPT !.op = "login", !.status = 200,
                                                    !.token = token]]
    /\ AuthUnchanged

\* tests/test_auth.py: create_access_token(data={"sub": user.username}),
\* the expiry left to its default
CreateToken(uid) ==
    /\ Cardinality(auth.issued) < MaxTokens
    /\ auth.users[uid] # NoUser
    /\ LET token == create_access_token(auth.users[uid].username, auth.now,
                                        ACCESS_TOKEN_EXPIRE_MINUTES)
       IN  auth' = [auth EXCEPT
                       !.issued = @ \cup {[token |-> token, uid |-> uid]},
                       !.last = [NoCall EXCEPT !.op = "create", !.status = 200,
                                               !.token = token]]
    /\ AuthUnchanged

\* verify_token_string(token)
VerifyTokenString(token) ==
    /\ LET v == verify_token_string(token, auth.now)
       IN  auth' = [auth EXCEPT
                       !.last = [NoCall EXCEPT !.op = "verify", !.token = token,
                                               !.status = v.status,
                                               !.username = v.username]]
    /\ AuthUnchanged

\* GET /auth/users/me
read_users_me(token) ==
    /\ LET c == get_current_active_user(auth.users, token, auth.now)
       IN  auth' = [auth EXCEPT
                       !.last = [NoCall EXCEPT !.op = "me", !.token = token,
                                               !.status = c.status, !.user = c.user]]
    /\ AuthUnchanged

\* PUT /auth/users/me with a username and is_active: refused when the name
\* is taken
update_user_me(token, username, is_active) ==
    /\ LET c == get_current_active_user(auth.users, token, auth.now)
       IN  auth' = IF c.status # 200
                   THEN [auth EXCEPT !.last = [NoCall EXCEPT !.op = "update",
                                                             !.status = c.status]]
                   ELSE IF username # c.user.username
                           /\ UserNamed(auth.users, username) # NoUser
                   THEN [auth EXCEPT !.last = [NoCall EXCEPT !.op = "update",
                                                             !.status = 400]]
                   ELSE [auth EXCEPT
                            !.users[c.user.id].username = username,
                            !.users[c.user.id].is_active = is_active,
                            !.last = [NoCall EXCEPT !.op = "update", !.status = 200]]
    /\ AuthUnchanged

\* POST /auth/register
register_user(username) ==
    /\ auth' = IF UserNamed(auth.users, username) # NoUser
                  \/ \A i \in UserIds : auth.users[i] # NoUser
               THEN [auth EXCEPT !.last = [NoCall EXCEPT !.op = "register",
                                                         !.status = 400]]
               ELSE LET id == CHOOSE i \in UserIds :
                                 /\ auth.users[i] = NoUser
                                 /\ \A j \in UserIds : auth.users[j] = NoUser => i <= j
                    IN  [auth EXCEPT
                           !.users[id] = [id |-> id, username |-> username,
                                          is_active |-> TRUE, is_superuser |-> FALSE],
                           !.last = [NoCall EXCEPT !.op = "register", !.status = 200]]
    /\ AuthUnchanged

\* Time passes.
AuthTick ==
    /\ auth.now + TickMinutes <= MaxMinutes
    /\ auth' = [auth EXCEPT !.now = @ + TickMinutes, !.last = NoCall]
    /\ AuthUnchanged

NextAuth ==
    \/ \E username \in Usernames, password_ok \in BOOLEAN :
          login_for_access_token(username, password_ok)
    \/ \E uid \in UserIds : CreateToken(uid)
    \/ \E token \in Presented : VerifyTokenString(token)
    \/ \E token \in Presented : read_users_me(token)
    \/ \E token \in Presented, username \in Usernames, is_active \in BOOLEAN :
          update_user_me(token, username, is_active)
    \/ \E username \in Usernames : register_user(username)
    \/ AuthTick

SpecAuth == InitAuth /\ [][NextAuth]_vars

\* The users a presented token was issued for.
IssuedFor(token) == {i.uid : i \in {j \in auth.issued : j.token = token}}

----------------------------------------------------------------------------
(* services/rate_limiting_service.py.  The clock counts seconds; every call *)
(* of check_rate_limit reads it later than the call before.                *)

RATE_LIMITS ==
    [login          |-> [limit |-> 5,   window |-> 300],
     password_reset |-> [limit |-> 3,   window |-> 3600],
     otp_verify     |-> [limit |-> 10,  window |-> 300],
     prediction     |-> [limit |-> 100, window |-> 3600],
     upload         |-> [limit |-> 50,  window |-> 3600]]

\* Calls of check_rate_limit in a run.
MaxCalls == 6

\* Seconds between one call and the next.
Delays == {1, 300}

\* Who calls, and for what: a configured action and one that is
\* not configured.
Identifiers == {"10.0.0.1", "user:alice"}
Actions == {"login", "logout"}

Keys == Identifiers \X (DOMAIN RATE_LIMITS)

NoKey == [members |-> {}, expires |-> 0]

\* The sorted set under a key at time `now`: a key whose time to live has run
\* out is gone.
Live(redis, key, now) ==
    IF redis[key].members # {} /\ redis[key].expires <= now THEN NoKey ELSE redis[key]

\* _check_memory_rate_limit on in_memory_limits
_check_memory_rate_limit(in_memory_limits, key, limit, window_seconds, current_time) ==
    LET min_time == current_time - window_seconds
        timestamps == {t \in in_memory_limits[key] : t > min_time}
    IN  IF Cardinality(timestamps) >= limit
        THEN [is_limited |-> TRUE,
              in_memory_limits |-> [in_memory_limits EXCEPT ![key] = timestamps]]
        ELSE [is_limited |-> FALSE,
              in_memory_limits |->
                  [in_memory_limits EXCEPT ![key] = timestamps \cup {current_time}]]

\* _check_redis_rate_limit with Redis answering: zremrangebyscore removes the
\* scores up to min_time, zcard counts, zadd adds the member str(current_time)
\* and expire restarts the key's time to live.
_check_redis_rate_limit(redis, key, limit, window_seconds, current_time) ==
    LET min_time == current_time - window_seconds
        kept == {t \in Live(redis, key, current_time).members : t > min_time}
        pruned == [Live(redis, key, current_time) EXCEPT !.members = kept]
    IN  IF Cardinality(kept) >= limit
        THEN [is_limited |-> TRUE, redis |-> [redis EXCEPT ![key] = pruned]]
        ELSE [is_limited |-> FALSE,
              redis |-> [redis EXCEPT ![key] =
                            [members |-> kept \cup {current_time},
                             expires |-> current_time + window_seconds]]]

\* check_rate_limit(identifier, action) at current_time.  The service object
\* is made for the call: when Redis does not answer, __init__ or the fallback
\* of _check_redis_rate_limit gives it an empty in_memory_limits, which is
\* dropped with the object when the call returns.
check_rate_limit(redis, identifier, action, reachable, current_time) ==
    IF action \notin DOMAIN RATE_LIMITS
    THEN [is_limited |-> FALSE, counted |-> FALSE, redis |-> redis]
    ELSE LET config == RATE_LIMITS[action]
             key == <<identifier, action>>
             in_memory_limits == [k \in Keys |-> {}]
             r == _check_redis_rate_limit(redis, key, config.limit, config.window,
                                          current_time)
             m == _check_memory_rate_limit(in_memory_limits, key, config.limit,
                                           config.window, current_time)
         IN  IF reachable
             THEN [is_limited |-> r.is_limited, counted |-> TRUE, redis |-> r.redis]
             ELSE [is_limited |-> m.is_limited, counted |-> TRUE, redis |-> redis]

InitLimiter ==
    /\ extractor = "loaded"
    /\ svm_model = "loaded"
    /\ AtRest
    /\ limiter = [now |-> 0, calls |-> 0,
                  redis |-> [k \in Keys |-> NoKey],
                  admitted |-> [k \in Keys |-> {}],
                  last |-> [is_limited |-> FALSE, action |-> ""]]
    /\ boot = Serving
    /\ classify = Unused
    /\ spectrogram = Unused
    /\ timing = Unused
    /\ auth = Unused

\* One call of check_rate_limit, `delay` seconds after the call before it.
CheckRateLimit(identifier, action, reachable, delay) ==
    /\ limiter.calls < MaxCalls
    /\ LET current_time == limiter.now + delay
           c == check_rate_limit(limiter.redis, identifier, action, reachable,
                                 current_time)
       IN  limiter' =
              [now |-> current_time,
               calls |-> limiter.calls + 1,
               redis |-> c.redis,
               admitted |-> IF c.counted /\ ~c.is_limited
                            THEN [limiter.admitted EXCEPT
                                     ![<<identifier, action>>] = @ \cup {current_time}]
                            ELSE limiter.admitted,
               last |-> [is_limited |-> c.is_limited, action |-> action]]
    /\ UNCHANGED <<extractor, svm_model, pipeline, boot, classify, spectrogram, timing, auth>>

NextLimiter ==
    \E identifier \in Identifiers, action \in Actions, reachable \in BOOLEAN,
       delay \in Delays :
        CheckRateLimit(identifier, action, reachable, delay)

SpecLimiter == InitLimiter /\ [][NextLimiter]_vars


----------------------------------------------------------------------------
(* middleware/rate_limiting_middleware.py on the application of main.py.   *)
(* A path is the sequence of its characters.  The clock counts seconds.    *)

\* main.py: the audio router under /audio, the auth router under /auth, and
\* /health on the application itself.
AUDIO_PREDICT == <<"/", "a", "u", "d", "i", "o", "/", "p", "r", "e", "d", "i", "c", "t">>

\* The paths of the requests: /audio/predict, /auth/token and /health, which
\* are mounted, and /predict, which no router is mounted at.
RequestPaths ==
    {AUDIO_PREDICT,
     <<"/", "a", "u", "t", "h", "/", "t", "o", "k", "e", "n">>,
     <<"/", "h", "e", "a", "l", "t", "h">>,
     <<"/", "p", "r", "e", "d", "i", "c", "t">>}

\* RateLimitingMiddleware.__init__
RateLimitExcludePaths ==
    {<<"/", "d", "o", "c", "s">>,
     <<"/", "r", "e", "d", "o", "c">>,
     <<"/", "o", "p", "e", "n", "a", "p", "i", ".", "j", "s", "o", "n">>,
     <<"/", "h", "e", "a", "l", "t", "h">>}

\* Requests the middleware sees in a run.
MaxDispatches == 4

\* No Authorization header.
NoAuthorization == <<>>

\* RateLimitingMiddleware._get_identifier at `now` seconds
_get_identifier(authorization, client, now) ==
    IF authorization # NoAuthorization
       /\ verify_token_string(authorization, now \div 60).status = 200
    THEN "user:" \o verify_token_string(authorization, now \div 60).username
    ELSE client

\* RateLimitingMiddleware._get_action; "" is None.
_get_action(path, method) ==
    IF StartsWith(path, <<"/", "a", "u", "t", "h", "/", "t", "o", "k", "e", "n">>) /\ method = "POST"
        THEN "login"
    ELSE IF StartsWith(path, <<"/", "a", "u", "t", "h", "/", "p", "a", "s", "s", "w", "o", "r", "d", "-", "r", "e", "s", "e", "t">>) /\ method = "POST"
        THEN "password_reset"
    ELSE IF StartsWith(path, <<"/", "a", "u", "t", "h", "/", "o", "t", "p", "/", "v", "e", "r", "i", "f", "y">>) /\ method = "POST"
        THEN "otp_verify"
    ELSE IF StartsWith(path, <<"/", "p", "r", "e", "d", "i", "c", "t">>) /\ method \in {"POST", "PUT"}
        THEN "prediction"
    ELSE IF StartsWith(path, <<"/", "u", "p", "l", "o", "a", "d">>) /\ method = "POST"
        THEN "upload"
    ELSE ""

NoDispatch ==
    [path |-> <<>>, method |-> "", identifier |-> "", action |-> "",
     counted |-> FALSE, status |-> 0]

InitDispatch ==
    /\ extractor = "loaded"
    /\ svm_model = "loaded"
    /\ AtRest
    /\ limiter = [now |-> 0, calls |-> 0,
                  redis |-> [k \in Keys |-> NoKey],
                  last |-> NoDispatch]
    /\ boot = Serving
    /\ classify = Unused
    /\ spectrogram = Unused
    /\ timing = Unused
    /\ auth = Unused

\* RateLimitingMiddleware.dispatch, `delay` seconds after the request
\* before it.  status is 429 for the middleware's own answer and 200 when
\* the request was passed to call_next.
RateLimitingMiddleware_dispatch(path, method, authorization, reachable, delay) ==
    /\ limiter.calls < MaxDispatches
    /\ LET current_time == limiter.now + delay
           excluded == \E p \in RateLimitExcludePaths : StartsWith(path, p)
           identifier == _get_identifier(authorization, "10.0.0.1", current_time)
           action == _get_action(path, method)
           c == check_rate_limit(limiter.redis, identifier, action, reachable,
                                 current_time)
           checked == ~excluded /\ action # ""
       IN  limiter' =
              [now |-> current_time,
               calls |-> limiter.calls + 1,
               redis |-> IF checked THEN c.redis ELSE limiter.redis,
               last |-> [path |-> path, method |-> method,
                         identifier |-> IF excluded THEN "" ELSE identifier,
                         action |-> IF excluded THEN "" ELSE action,
                         counted |-> checked /\ c.counted,
                         status |-> IF checked /\ c.is_limited THEN 429 ELSE 200]]
    /\ UNCHANGED <<extractor, svm_model, pipeline, boot, classify, spectrogram, timing, auth>>

\* The requests come from 10.0.0.1, without an Authorization header or with
\* a bearer token of alice.
NextDispatch ==
    \E path \in RequestPaths, method \in {"GET", "POST"},
       authorization \in {NoAuthorization,
                          create_access_token("alice", 0, ACCESS_TOKEN_EXPIRE_MINUTES)},
       reachable \in BOOLEAN, delay \in Delays :
        RateLimitingMiddleware_dispatch(path, method, authorization, reachable, delay)

SpecDispatch == InitDispatch /\ [][NextDispatch]_vars


----------------------------------------------------------------------------
(* middleware/auth.py: the password-reset endpoints.  The clock counts     *)
(* minutes.  A reset token is a number: secrets.token_urlsafe(32) gives a  *)
(* value that no earlier call gave, here the count of the tokens made.     *)

\* A column that is NULL.  No token a request carries is equal to it.
NULL == 0

\* timedelta(hours=1), in minutes
RESET_TOKEN_EXPIRE_MINUTES == 60

\* Reset tokens made in a run.
MaxResetTokens == 3

Passwords == {"admin123", "hunter2"}

\* get_password_hash: bcrypt of the password under a salt made for the call.
get_password_hash(password, salt) == [bcrypt |-> password, salt |-> salt]

ResetUser(id, email, username, password) ==
    [id |-> id, email |-> email, username |-> username,
     hashed_password |-> get_password_hash(password, 0),
     reset_token |-> NULL, reset_token_expires |-> NULL]

\* db.query(User).filter(User.email == email).first(); 0 is None.
UserByEmail(users, email) ==
    IF \E i \in DOMAIN users : users[i].email = email
    THEN CHOOSE i \in DOMAIN users : users[i].email = email
    ELSE 0

\* db.query(User).filter(User.reset_token == token,
\*                       User.reset_token_expires > utcnow).first()
UserByResetToken(users, token, now) ==
    IF \E i \in DOMAIN users : /\ users[i].reset_token # NULL
                               /\ users[i].reset_token = token
                               /\ users[i].reset_token_expires > now
    THEN CHOOSE i \in DOMAIN users : /\ users[i].reset_token # NULL
                                     /\ users[i].reset_token = token
                                     /\ users[i].reset_token_expires > now
    ELSE 0

NoReset ==
    [op |-> "", email |-> "", token |-> NULL, status |-> 0, body |-> "",
     at |-> 0, before |-> <<>>]

\* minted[t] tells for whom and when token t was made; accepted lists the
\* tokens of the confirms that changed a password, in their order.
InitReset ==
    /\ extractor = "loaded"
    /\ svm_model = "loaded"
    /\ AtRest
    /\ auth = [now |-> 0,
               users |-> <<ResetUser(1, "admin@example.com", "admin", "admin123"),
                           ResetUser(2, "alice@example.com", "alice", "hunter2")>>,
               salts |-> 0,
               minted |-> <<>>,
               accepted |-> <<>>,
               last |-> NoReset]
    /\ boot = Serving
    /\ classify = Unused
    /\ spectrogram = Unused
    /\ timing = Unused
    /\ limiter = Unused

\* POST /auth/password-reset/request.  For a registered email the token is
\* committed, send_password_reset_email (a plain def) runs and returns a
\* str, and awaiting that str raises TypeError: the handler's
\* `except Exception` answers 500; its rollback finds nothing uncommitted.
request_password_reset(email) ==
    /\ Len(auth.minted) < MaxResetTokens
    /\ LET uid == UserByEmail(auth.users, email)
           reset_token == Len(auth.minted) + 1
           expires_at == auth.now + RESET_TOKEN_EXPIRE_MINUTES
           call == [NoReset EXCEPT !.op = "request", !.email = email,
                                   !.at = auth.now, !.before = auth.users]
       IN  auth' =
             IF uid = 0
             THEN [auth EXCEPT !.last =
                     [call EXCEPT !.status = 200,
                                  !.body = "If the email exists, a password reset link has been sent"]]
             ELSE [auth EXCEPT
                     !.users[uid].reset_token = reset_token,
                     !.users[uid].reset_token_expires = expires_at,
                     !.minted = Append(@, [uid |-> uid, at |-> auth.now]),
                     !.last = [call EXCEPT !.status = 500,
                                           !.body = "Internal server error"]]
    /\ AuthUnchanged

\* confirm_password_reset leaving the token in place
confirm_password_reset_keeping_token(token, new_password) ==
    /\ auth.salts < MaxResetTokens
    /\ LET uid == UserByResetToken(auth.users, token, auth.now)
           call == [NoReset EXCEPT !.op = "confirm", !.token = token,
                                   !.at = auth.now, !.before = auth.users]
       IN  auth' =
             IF uid = 0
             THEN [auth EXCEPT !.last =
                     [call EXCEPT !.status = 400, !.body = "Invalid or expired token"]]
             ELSE [auth EXCEPT
                     !.users[uid].hashed_password =
                         get_password_hash(new_password, auth.salts + 1),
                     !.salts = @ + 1,
                     !.accepted = Append(@, token),
                     !.last = [call EXCEPT !.status = 200,
                                           !.body = "Password reset successfully"]]
    /\ AuthUnchanged

\* POST /auth/password-reset/confirm
confirm_password_reset(token, new_password) ==
    /\ auth.salts < MaxResetTokens
    /\ LET uid == UserByResetToken(auth.users, token, auth.now)
           call == [NoReset EXCEPT !.op = "confirm", !.token = token,
                                   !.at = auth.now, !.before = auth.users]
       IN  auth' =
             IF uid = 0
             THEN [auth EXCEPT !.last =
                     [call EXCEPT !.status = 400, !.body = "Invalid or expired token"]]
             ELSE [auth EXCEPT
                     !.users[uid].hashed_password =
                         get_password_hash(new_password, auth.salts + 1),
                     !.users[uid].reset_token = NULL,
                     !.users[uid].reset_token_expires = NULL,
                     !.salts = @ + 1,
                     !.accepted = Append(@, token),
                     !.last = [call EXCEPT !.status = 200,
                                           !.body = "Password reset successfully"]]
    /\ AuthUnchanged

\* Time passes.
ResetTick ==
    /\ auth.now + TickMinutes <= MaxMinutes
    /\ auth' = [auth EXCEPT !.now = @ + TickMinutes]
    /\ AuthUnchanged

NextReset ==
    \/ \E email \in {"admin@example.com", "alice@example.com", "nobody@example.com"} :
          request_password_reset(email)
    \/ \E token \in 1..MaxResetTokens, new_password \in Passwords :
          confirm_password_reset(token, new_password)
    \/ ResetTick

SpecReset == InitReset /\ [][NextReset]_vars


----------------------------------------------------------------------------
(* The two admin delete endpoints: DELETE /auth/users/{user_id} of         *)
(* middleware/auth.py and DELETE /admin/users/{user_id} of routes/admin.py. *)

\* Bearer tokens of the three usernames, made at minute 0.
AdminTokens ==
    {create_access_token(username, 0, ACCESS_TOKEN_EXPIRE_MINUTES) :
        username \in Usernames}

\* db.query(User).filter(User.id == user_id).first(); NoUser is None.
UserById(users, user_id) ==
    IF user_id \in DOMAIN users THEN users[user_id] ELSE NoUser

\* require_admin on get_current_active_user
require_admin(users, token, now) ==
    LET r == get_current_active_user(users, token, now)
    IN  IF r.status # 200 THEN r
        ELSE IF ~r.user.is_superuser THEN [status |-> 403, user |-> NoUser]
        ELSE r

\* The three tables the handlers touch.
Tables ==
    [users |-> auth.users, predictions |-> auth.predictions,
     audio_files |-> auth.audio_files]

InitAdmin ==
    /\ extractor = "loaded"
    /\ svm_model = "loaded"
    /\ AtRest
    /\ \E alice_is_superuser \in BOOLEAN, bob \in {"", "bob"},
          prediction_rows \in SUBSET {[id |-> 1, user_id |-> 1], [id |-> 2, user_id |-> 2],
                                      [id |-> 3, user_id |-> 2]},
          audio_file_rows \in SUBSET {[id |-> 1, user_id |-> 1], [id |-> 2, user_id |-> 2]} :
          auth = [now |-> 0,
                  users |-> [i \in UserIds |->
                               CASE i = 1 -> SeededAdmin
                                 [] i = 2 -> [id |-> 2, username |-> "alice",
                                              is_active |-> TRUE,
                                              is_superuser |-> alice_is_superuser]
                                 [] OTHER -> IF bob = "" THEN NoUser
                                             ELSE [id |-> 3, username |-> bob,
                                                   is_active |-> TRUE,
                                                   is_superuser |-> FALSE]],
                  predictions |-> prediction_rows,
                  audio_files |-> audio_file_rows,
                  last |-> [op |-> "", token |-> <<>>, user_id |-> 0, status |-> 0,
                            current_user |-> NoUser,
                            before |-> [users |-> <<>>, predictions |-> {},
                                        audio_files |-> {}]]]
    /\ boot = Serving
    /\ classify = Unused
    /\ spectrogram = Unused
    /\ timing = Unused
    /\ limiter = Unused

\* auth.py delete_user without the check against the admin's own id
auth_delete_user_unguarded(token, user_id, commit_raises) ==
    /\ LET r == require_admin(auth.users, token, auth.now)
           db_user == UserById(auth.users, user_id)
           call == [op |-> "auth_delete_user", token |-> token, user_id |-> user_id,
                    status |-> r.status, current_user |-> r.user, before |-> Tables]
       IN  auth' =
             IF r.status # 200 THEN [auth EXCEPT !.last = call]
             ELSE IF db_user = NoUser
                 THEN [auth EXCEPT !.last = [call EXCEPT !.status = 404]]
             ELSE IF commit_raises
                 THEN [auth EXCEPT !.last = [call EXCEPT !.status = 500]]
             ELSE [auth EXCEPT
                     !.predictions = {p \in @ : p.user_id # user_id},
                     !.audio_files = {f \in @ : f.user_id # user_id},
                     !.users[user_id] = NoUser,
                     !.last = [call EXCEPT !.status = 200]]
    /\ AuthUnchanged

\* DELETE /auth/users/{user_id}.  commit_raises: db.commit() fails, as it
\* does when rows of other tables still refer to the user; the handler
\* rolls back and answers 500.
auth_delete_user(token, user_id, commit_raises) ==
    /\ LET r == require_admin(auth.users, token, auth.now)
           db_user == UserById(auth.users, user_id)
           call == [op |-> "auth_delete_user", token |-> token, user_id |-> user_id,
                    status |-> r.status, current_user |-> r.user, before |-> Tables]
       IN  auth' =
             IF r.status # 200 THEN [auth EXCEPT !.last = call]
             ELSE IF db_user = NoUser
                 THEN [auth EXCEPT !.last = [call EXCEPT !.status = 404]]
             ELSE IF db_user.id = r.user.id
                 THEN [auth EXCEPT !.last = [call EXCEPT !.status = 400]]
             ELSE IF commit_raises
                 THEN [auth EXCEPT !.last = [call EXCEPT !.status = 500]]
             ELSE [auth EXCEPT
                     !.predictions = {p \in @ : p.user_id # user_id},
                     !.audio_files = {f \in @ : f.user_id # user_id},
                     !.users[user_id] = NoUser,
                     !.last = [call EXCEPT !.status = 200]]
    /\ AuthUnchanged

\* DELETE /admin/users/{user_id}
admin_delete_user(token, user_id, commit_raises) ==
    /\ LET r == require_admin(auth.users, token, auth.now)
           db_user == UserById(auth.users, user_id)
           call == [op |-> "admin_delete_user", token |-> token, user_id |-> user_id,
                    status |-> r.status, current_user |-> r.user, before |-> Tables]
       IN  auth' =
             IF r.status # 200 THEN [auth EXCEPT !.last = call]
             ELSE IF db_user = NoUser
                 THEN [auth EXCEPT !.last = [call EXCEPT !.status = 404]]
             ELSE IF db_user.id = r.user.id
                 THEN [auth EXCEPT !.last = [call EXCEPT !.status = 400]]
             ELSE IF commit_raises
                 THEN [auth EXCEPT !.last = [call EXCEPT !.status = 500]]
             ELSE [auth EXCEPT
                     !.predictions = {p \in @ : p.user_id # user_id},
                     !.audio_files = {f \in @ : f.user_id # user_id},
                     !.users[user_id] = NoUser,
                     !.last = [call EXCEPT !.status = 200]]
    /\ AuthUnchanged

\* A request names one of the ids of UserIds or the id 4, which no user has.
NextAdmin ==
    \/ \E token \in AdminTokens, user_id \in UserIds \cup {4}, commit_raises \in BOOLEAN :
          auth_delete_user(token, user_id, commit_raises)
    \/ \E token \in AdminTokens, user_id \in UserIds \cup {4}, commit_raises \in BOOLEAN :
          admin_delete_user(token, user_id, commit_raises)

SpecAdmin == InitAdmin /\ [][NextAdmin]_vars


----------------------------------------------------------------------------
(* middleware/otp_middleware.py, services/otp_service.py and the OTP       *)
(* endpoints of middleware/auth.py.  The clock counts TOTP periods of 30   *)
(* seconds.  A request goes through OTPMiddleware.dispatch, then through   *)
(* the dependency get_current_active_user, which loads current_user, then  *)
(* through its handler; dispatch and the handlers have no await between    *)
(* their reads and their commit, so each is one step, and the steps of     *)
(* requests in flight interleave.  The database outlives the process: its  *)
(* rows can hold OTP enrolments written before this build.                 *)

\* Requests in flight at once, requests in a run, and TOTP periods.
NumOtpRequests == 2
MaxOtpRequests == 2
MaxOtpPeriods == 1

\* A String column that is NULL, a Text column that is NULL, a header that
\* is absent.
NoSecret == ""
NoText == <<>>
NoHeader == ""

\* OTPMiddleware.__init__
OtpExcludePaths ==
    {<<"/", "a", "u", "t", "h", "/", "t", "o", "k", "e", "n">>,
     <<"/", "a", "u", "t", "h", "/", "r", "e", "g", "i", "s", "t", "e", "r">>,
     <<"/", "a", "u", "t", "h", "/", "u", "s", "e", "r", "s", "/", "m", "e">>,
     <<"/", "a", "u", "t", "h", "/", "p", "a", "s", "s", "w", "o", "r", "d", "-", "r", "e", "s", "e", "t">>,
     <<"/", "a", "u", "t", "h", "/", "e", "m", "a", "i", "l", "-", "v", "e", "r", "i", "f", "i", "c", "a", "t", "i", "o", "n">>,
     <<"/", "d", "o", "c", "s">>,
     <<"/", "r", "e", "d", "o", "c">>,
     <<"/", "o", "p", "e", "n", "a", "p", "i", ".", "j", "s", "o", "n">>,
     <<"/", "h", "e", "a", "l", "t", "h">>}

\* The routes of the auth router that the requests go to.
OTP_SETUP == <<"/", "a", "u", "t", "h", "/", "o", "t", "p", "/", "s", "e", "t", "u", "p">>
OTP_VERIFY == <<"/", "a", "u", "t", "h", "/", "o", "t", "p", "/", "v", "e", "r", "i", "f", "y">>
OTP_DISABLE == <<"/", "a", "u", "t", "h", "/", "o", "t", "p", "/", "d", "i", "s", "a", "b", "l", "e">>
OTP_VERIFY_LOGIN == <<"/", "a", "u", "t", "h", "/", "o", "t", "p", "/", "v", "e", "r", "i", "f", "y", "-", "l", "o", "g", "i", "n">>
OTP_BACKUP_CODE == <<"/", "a", "u", "t", "h", "/", "o", "t", "p", "/", "b", "a", "c", "k", "u", "p", "-", "c", "o", "d", "e">>
USERS_ME == <<"/", "a", "u", "t", "h", "/", "u", "s", "e", "r", "s", "/", "m", "e">>

\* pyotp.TOTP(secret).now() in period `now`
TOTP(secret, now) == secret \o "@" \o ToString(now)

\* OTPService.verify_otp in period `now`: pyotp raises on a secret that is
\* None, and the except answers False.
verify_otp(secret, otp_code, now) ==
    IF secret = NoSecret THEN FALSE ELSE otp_code = TOTP(secret, now)

\* json.dumps and json.loads of a list of codes: the text is the list
\* between its brackets.
json_dumps(codes) == <<"[">> \o codes \o <<"]">>
json_loads(text) == SubSeq(text, 2, Len(text) - 1)

\* OTPService.hash_backup_codes
hash_backup_codes(codes) == json_dumps(codes)

\* `code in codes`
Contains(codes, code) == \E i \in DOMAIN codes : codes[i] = code

\* list.remove: the list without the first occurrence of code
ListRemove(codes, code) ==
    LET k == CHOOSE i \in DOMAIN codes :
                 codes[i] = code /\ \A j \in 1..(i - 1) : codes[j] # code
    IN  SubSeq(codes, 1, k - 1) \o SubSeq(codes, k + 1, Len(codes))

\* OTPService.verify_backup_code that leaves an accepted code in the list
OTPService_verify_backup_code_keeping(stored_codes_json, code) ==
    IF Contains(json_loads(stored_codes_json), code)
    THEN [is_valid |-> TRUE, updated_codes |-> stored_codes_json]
    ELSE [is_valid |-> FALSE, updated_codes |-> stored_codes_json]

\* OTPService.verify_backup_code
OTPService_verify_backup_code(stored_codes_json, code) ==
    IF Contains(json_loads(stored_codes_json), code)
    THEN [is_valid |-> TRUE,
          updated_codes |-> json_dumps(ListRemove(json_loads(stored_codes_json), code))]
    ELSE [is_valid |-> FALSE, updated_codes |-> stored_codes_json]

\* pwd_context.verify
pwd_verify(password, hashed_password) == hashed_password.bcrypt = password

\* Rows of users as the database can hold them: never enrolled, with a setup
\* begun, and enrolled.
OtpUser(id, username, password, row) ==
    [id |-> id, username |-> username, is_active |-> TRUE,
     hashed_password |-> get_password_hash(password, 0),
     otp_enabled |-> row.otp_enabled, otp_secret |-> row.otp_secret,
     otp_backup_codes |-> row.otp_backup_codes,
     temp_otp_secret |-> row.temp_otp_secret]

NeverEnrolled ==
    [otp_enabled |-> FALSE, otp_secret |-> NoSecret, otp_backup_codes |-> NoText,
     temp_otp_secret |-> NoSecret]
SetupBegun == [NeverEnrolled EXCEPT !.temp_otp_secret = "KRSXG5DJ"]
Enrolled ==
    [otp_enabled |-> TRUE, otp_secret |-> "JBSWY3DP",
     otp_backup_codes |-> hash_backup_codes(<<"1A2B3C4D", "5E6F7A8B">>),
     temp_otp_secret |-> NoSecret]

\* What a request carries: X-OTP-Verified, X-OTP-Code, X-Backup-Code.
NoHeaders == [otp_verified |-> NoHeader, otp_code |-> NoHeader, backup_code |-> NoHeader]
HeaderSets ==
    {NoHeaders,
     [NoHeaders EXCEPT !.otp_verified = "true"],
     [NoHeaders EXCEPT !.otp_code = TOTP("JBSWY3DP", 0)],
     [NoHeaders EXCEPT !.otp_code = "000000"],
     [NoHeaders EXCEPT !.backup_code = "1A2B3C4D"],
     [NoHeaders EXCEPT !.backup_code = "FFFFFFFF"]}

\* The Authorization header and the OTP headers of a request: alice's bearer
\* token with each of the header sets, bob's bearer token, and no
\* Authorization header.
OtpCredentials ==
    {[token |-> create_access_token("alice", 0, ACCESS_TOKEN_EXPIRE_MINUTES),
      headers |-> h] : h \in HeaderSets}
    \cup {[token |-> create_access_token("bob", 0, ACCESS_TOKEN_EXPIRE_MINUTES),
           headers |-> NoHeaders],
          [token |-> NoAuthorization, headers |-> NoHeaders]}

\* auth.py line 16: the import of OTPService is commented out, so the name
\* is unbound in the module and `OTPService()` raises NameError, which the
\* handlers' `except Exception` answers with 500.
NameError == [status |-> 500, detail |-> "Internal server error"]

NoOtpRequest ==
    [pc |-> "idle", path |-> <<>>, token |-> NoAuthorization, headers |-> NoHeaders,
     at |-> 0, passed |-> FALSE, seen |-> NoUser, current_user |-> NoUser,
     status |-> 0, detail |-> "", backup_codes |-> <<>>]

InitOtp ==
    /\ extractor = "loaded"
    /\ svm_model = "loaded"
    /\ AtRest
    /\ \E bob \in {NeverEnrolled, SetupBegun} :
          auth = [now |-> 0,
                  started |-> 0,
                  users |-> [i \in UserIds |->
                               CASE i = 1 -> OtpUser(1, "admin", "admin123", NeverEnrolled)
                                 [] i = 2 -> OtpUser(2, "alice", "hunter2", Enrolled)
                                 [] OTHER -> OtpUser(3, "bob", "hunter2", bob)],
                  accepted |-> <<>>,
                  reqs |-> [r \in 1..NumOtpRequests |-> NoOtpRequest]]
    /\ boot = Serving
    /\ classify = Unused
    /\ spectrogram = Unused
    /\ timing = Unused
    /\ limiter = Unused

\* OTPMiddleware.dispatch up to call_next: the status it answers with, 0
\* when it calls call_next, and the backup codes it commits for the user.
OTPMiddleware_check(users, path, token, headers, now) ==
    LET v == verify_token_string(token, (now * 30) \div 60)
        user == UserNamed(users, v.username)
        pass == [status |-> 0, detail |-> "", otp_backup_codes |-> user.otp_backup_codes,
                 consumed |-> NoHeader]
        deny(detail) == [pass EXCEPT !.status = 401, !.detail = detail]
        b == OTPService_verify_backup_code(user.otp_backup_codes, headers.backup_code)
    IN  IF v.status # 200
            THEN [status |-> 500, detail |-> "Internal Server Error",
                  otp_backup_codes |-> NoText, consumed |-> NoHeader]
        ELSE IF user = NoUser
            THEN [status |-> 401, detail |-> "User not found",
                  otp_backup_codes |-> NoText, consumed |-> NoHeader]
        ELSE IF ~user.otp_enabled THEN pass
        ELSE IF headers.otp_verified = "true" THEN pass
        ELSE IF headers.otp_code # NoHeader
            THEN IF verify_otp(user.otp_secret, headers.otp_code, now)
                 THEN pass ELSE deny("Invalid OTP code")
        ELSE IF headers.backup_code # NoHeader
            THEN IF user.otp_backup_codes = NoText
                     THEN deny("Backup codes not available")
                 ELSE IF ~b.is_valid THEN deny("Invalid backup code")
                 ELSE [pass EXCEPT !.otp_backup_codes = b.updated_codes,
                                   !.consumed = headers.backup_code]
        ELSE deny("OTP verification required")

\* OTPMiddleware.dispatch for a request that arrives
OTPMiddleware_dispatch(r, path, token, headers) ==
    /\ auth.reqs[r].pc \in {"idle", "done"}
    /\ auth.started < MaxOtpRequests
    /\ LET excluded == \E p \in OtpExcludePaths : StartsWith(path, p)
           v == verify_token_string(token, (auth.now * 30) \div 60)
           user == UserNamed(auth.users, v.username)
           c == OTPMiddleware_check(auth.users, path, token, headers, auth.now)
           request == [NoOtpRequest EXCEPT !.path = path, !.token = token,
                                           !.headers = headers, !.at = auth.now]
       IN  auth' =
             IF excluded \/ token = NoAuthorization
             THEN [auth EXCEPT !.started = @ + 1,
                               !.reqs[r] = [request EXCEPT !.pc = "depends",
                                                           !.passed = TRUE]]
             ELSE [auth EXCEPT
                     !.started = @ + 1,
                     !.users = IF c.status = 0 /\ user # NoUser
                               THEN [@ EXCEPT ![user.id].otp_backup_codes =
                                                  c.otp_backup_codes]
                               ELSE @,
                     !.accepted = IF c.consumed # NoHeader
                                  THEN Append(@, [uid |-> user.id, code |-> c.consumed])
                                  ELSE @,
                     !.reqs[r] = [request EXCEPT
                                     !.pc = IF c.status = 0 THEN "depends" ELSE "done",
                                     !.passed = (c.status = 0),
                                     !.seen = user,
                                     !.status = c.status,
                                     !.detail = c.detail]]
    /\ AuthUnchanged

\* The dependency get_current_active_user of the handler: HTTPBearer
\* answers 403 without an Authorization header.
ResolveCurrentUser(r) ==
    /\ auth.reqs[r].pc = "depends"
    /\ LET q == auth.reqs[r]
           g == get_current_active_user(auth.users, q.token, (auth.now * 30) \div 60)
       IN  auth' =
             IF q.token = NoAuthorization
             THEN [auth EXCEPT !.reqs[r].pc = "done", !.reqs[r].status = 403,
                               !.reqs[r].detail = "Not authenticated"]
             ELSE IF g.status # 200
             THEN [auth EXCEPT !.reqs[r].pc = "done", !.reqs[r].status = g.status]
             ELSE [auth EXCEPT !.reqs[r].pc = "handler", !.reqs[r].current_user = g.user]
    /\ AuthUnchanged

\* A handler's answer, and the row it commits for current_user.
Answer(r, status, detail, row) ==
    /\ auth' = [auth EXCEPT !.reqs[r].pc = "done",
                            !.reqs[r].status = status,
                            !.reqs[r].detail = detail,
                            !.users[auth.reqs[r].current_user.id] = row]
    /\ AuthUnchanged

AtHandler(r, path) == auth.reqs[r].pc = "handler" /\ auth.reqs[r].path = path

\* The row of current_user in the database.
Row(r) == auth.users[auth.reqs[r].current_user.id]

\* GET /auth/users/me
otp_read_users_me(r) ==
    /\ AtHandler(r, USERS_ME)
    /\ Answer(r, 200, "", Row(r))

\* POST /auth/otp/setup
setup_otp(r, password) ==
    /\ AtHandler(r, OTP_SETUP)
    /\ LET current_user == auth.reqs[r].current_user
       IN  IF ~pwd_verify(password, current_user.hashed_password)
               THEN Answer(r, 400, "Invalid password", Row(r))
           ELSE IF current_user.otp_enabled
               THEN Answer(r, 400, "OTP is already enabled", Row(r))
           ELSE Answer(r, NameError.status, NameError.detail, Row(r))

\* POST /auth/otp/verify
verify_otp_setup(r, otp_code) ==
    /\ AtHandler(r, OTP_VERIFY)
    /\ LET current_user == auth.reqs[r].current_user
       IN  IF current_user.temp_otp_secret = NoSecret
               THEN Answer(r, 400, "OTP setup not initiated", Row(r))
           ELSE Answer(r, NameError.status, NameError.detail, Row(r))

\* disable_otp that keeps the backup codes
disable_otp_keeping_codes(r, password) ==
    /\ AtHandler(r, OTP_DISABLE)
    /\ LET current_user == auth.reqs[r].current_user
       IN  IF ~pwd_verify(password, current_user.hashed_password)
               THEN Answer(r, 400, "Invalid password", Row(r))
           ELSE IF ~current_user.otp_enabled
               THEN Answer(r, 400, "OTP is not enabled", Row(r))
           ELSE Answer(r, 200, "OTP disabled successfully",
                       [Row(r) EXCEPT !.otp_secret = NoSecret,
                                      !.otp_enabled = FALSE,
                                      !.temp_otp_secret = NoSecret])

\* POST /auth/otp/disable
disable_otp(r, password) ==
    /\ AtHandler(r, OTP_DISABLE)
    /\ LET current_user == auth.reqs[r].current_user
       IN  IF ~pwd_verify(password, current_user.hashed_password)
               THEN Answer(r, 400, "Invalid password", Row(r))
           ELSE IF ~current_user.otp_enabled
               THEN Answer(r, 400, "OTP is not enabled", Row(r))
           ELSE Answer(r, 200, "OTP disabled successfully",
                       [Row(r) EXCEPT !.otp_secret = NoSecret,
                                      !.otp_enabled = FALSE,
                                      !.otp_backup_codes = NoText,
                                      !.temp_otp_secret = NoSecret])

\* POST /auth/otp/verify-login
verify_otp_for_login(r, otp_code) ==
    /\ AtHandler(r, OTP_VERIFY_LOGIN)
    /\ LET current_user == auth.reqs[r].current_user
       IN  IF ~current_user.otp_enabled
               THEN Answer(r, 400, "OTP is not enabled", Row(r))
           ELSE Answer(r, NameError.status, NameError.detail, Row(r))

\* POST /auth/otp/backup-code
verify_backup_code(r, backup_code) ==
    /\ AtHandler(r, OTP_BACKUP_CODE)
    /\ LET current_user == auth.reqs[r].current_user
       IN  IF ~current_user.otp_enabled \/ current_user.otp_backup_codes = NoText
               THEN Answer(r, 400, "OTP is not enabled", Row(r))
           ELSE Answer(r, NameError.status, NameError.detail, Row(r))

\* A TOTP period passes.
OtpTick ==
    /\ auth.now < MaxOtpPeriods
    /\ auth' = [auth EXCEPT !.now = @ + 1]
    /\ AuthUnchanged

\* The codes a request body carries.
OtpCodes == {TOTP("JBSWY3DP", 0), TOTP("KRSXG5DJ", 0), "1A2B3C4D", "5E6F7A8B"}

NextOtp ==
    \/ \E r \in 1..NumOtpRequests, c \in OtpCredentials,
          path \in {OTP_SETUP, OTP_VERIFY, OTP_DISABLE, OTP_VERIFY_LOGIN,
                    OTP_BACKUP_CODE, USERS_ME} :
          OTPMiddleware_dispatch(r, path, c.token, c.headers)
    \/ \E r \in 1..NumOtpRequests : ResolveCurrentUser(r)
    \/ \E r \in 1..NumOtpRequests : otp_read_users_me(r)
    \/ \E r \in 1..NumOtpRequests, password \in Passwords : setup_otp(r, password)
    \/ \E r \in 1..NumOtpRequests, otp_code \in OtpCodes : verify_otp_setup(r, otp_code)
    \/ \E r \in 1..NumOtpRequests, password \in Passwords : disable_otp(r, password)
    \/ \E r \in 1..NumOtpRequests, otp_code \in OtpCodes : verify_otp_for_login(r, otp_code)
    \/ \E r \in 1..NumOtpRequests, backup_code \in OtpCodes :
          verify_backup_code(r, backup_code)
    \/ OtpTick

SpecOtp == InitOtp /\ [][NextOtp]_vars

----------------------------------------------------------------------------
(* Vocabulary of the properties *)

Done(r) == req[r].pc = "done"

Succeeded(r) ==
    Done(r) /\ (req[r].outcome.status = 200 \/ req[r].outcome.detail = "Returned")

Failed(r) == Done(r) /\ ~Succeeded(r)

\* The stored records request r created.
RowsOf(r) == {i \in DOMAIN predictions : predictions[i].req = r}
DocsOf(r) == {i \in DOMAIN mongo : mongo[i].req = r}
RecordsOf(r) == Cardinality(RowsOf(r)) + Cardinality(DocsOf(r))

ModelsUnavailable == extractor = "None" \/ svm_model = "None"

WavName == <<"a", ".", "w", "a", "v">>
WebmName == <<"B", ".", "W", "e", "b", "M">>

\* What POST /audio/predict answers to an upload of `payload` as `name` when
\* no other request runs: every result the handler can reach on its own file.
AloneOutcomes(r, name, payload) ==
    IF name = <<>> THEN {HTTPException(400, "NoFile", "")}
    ELSE IF ~ExtensionAllowed(name) THEN {HTTPException(400, "UnsupportedFormat", "")}
    ELSE IF SizeCheck(payload.size) # "ok"
    THEN {HTTPException(400, SizeCheck(payload.size), "")}
    ELSE {PredictTail(r, name, payload.size, payload, tx, fault, <<>>).outcome :
             tx \in TranscoderOutcomes, fault \in Faults}

TranscoderFailures == {"nonzero", "timeout", "notfound"}

----------------------------------------------------------------------------
(* C1: a request in which a stage fails ends failed and leaves no prediction
   record, complete or partial, in a store. *)
C1_NoRecordOnFailure ==
    \A r \in Requests : Failed(r) => RecordsOf(r) = 0

(* C2: a request that completes successfully has created exactly one
   prediction record, and no request ever creates more than one (no stage and
   no write is repeated). *)
C2_ExactlyOneRecord ==
    \A r \in Requests :
        /\ RecordsOf(r) <= 1
        /\ Succeeded(r) => RecordsOf(r) = 1

C2_Witness ==
    /\ \A r \in Requests : Succeeded(r) /\ req[r].kind = "predict"
                           /\ req[r].filename = WavName
    /\ Len(predictions) = NumRequests

(* C3: with the extractor or the classifier unavailable, no request gets as
   far as recording audio, reading or staging an upload, decoding or
   transcoding it. *)
C3_RejectedBeforeAnyWork ==
    ModelsUnavailable =>
        \A r \in Requests :
            /\ ~req[r].recorded
            /\ ~req[r].staged
            /\ req[r].content = NoFile
            /\ req[r].loaded = NoFile
            /\ req[r].txCalls = 0

(* C4: with either model unavailable, every finished request of a prediction
   endpoint was answered 503, whatever was uploaded. *)
C4_Unavailable503 ==
    ModelsUnavailable =>
        \A r \in Requests :
            Done(r) /\ req[r].kind \in {"predict", "record"}
                => req[r].outcome.status = 503

(* C5: when a request has ended, no temporary file it created is left: not
   the .wav file of _convert_webm_to_wav, and, once every request has ended,
   no staged upload. *)
C5_NoTempFileLeft ==
    /\ \A r \in Requests : Done(r) => r \notin wavFiles
    /\ (\A r \in Requests : Done(r)) => \A n \in FileNames : fs[n] = NoFile

(* C6: whatever the interleaving, a /audio/predict request ends as it could
   have ended running alone on its own upload. *)
C6_Isolation ==
    \A r \in Requests :
        Done(r) /\ req[r].kind = "predict"
            => req[r].outcome \in AloneOutcomes(r, req[r].filename, req[r].content)

(* C7: an upload whose extension, compared case-insensitively, is not an
   accepted one is rejected with 400 "unsupported format" (with 400 "no file"
   when it has no name at all) before its bytes are read, staged or decoded,
   and creates no prediction record. *)
C7_UnsupportedRejected ==
    \A r \in Requests :
        req[r].kind = "predict" /\ SplitExt(Lower(req[r].filename)) \notin allowed_extensions
            => /\ Done(r)
               /\ req[r].outcome.status = 400
               /\ req[r].outcome.detail =
                     IF req[r].filename = <<>> THEN "NoFile" ELSE "UnsupportedFormat"
               /\ req[r].content = NoFile
               /\ ~req[r].staged
               /\ req[r].loaded = NoFile
               /\ req[r].txCalls = 0
               /\ RecordsOf(r) = 0

C7_Witness ==
    /\ Done(1) /\ req[1].filename = <<"c", ".", "x", "y", "z">>
    /\ req[1].outcome.detail = "UnsupportedFormat"
    /\ Done(2) /\ req[2].filename = <<"d">>
    /\ req[2].outcome.detail = "UnsupportedFormat"

(* C8: an upload read as zero bytes is rejected with 400 "empty file", one of
   more than 50 MB with 400 "too large"; neither is staged to a temporary
   file, decoded or transcoded, and neither creates a prediction record.
   (The size is inspected only after the extension check of C7 has passed.) *)
C8_EmptyAndHugeRejected ==
    \A r \in Requests :
        /\ req[r].kind = "predict" /\ req[r].content # NoFile
        /\ (req[r].content.size = 0 \/ req[r].content.size > MAX_UPLOAD_BYTES)
        => /\ Done(r)
           /\ req[r].outcome.status = 400
           /\ req[r].outcome.detail =
                 IF req[r].content.size = 0 THEN "EmptyInput" ELSE "TooLarge"
           /\ ~req[r].staged
           /\ req[r].loaded = NoFile
           /\ req[r].txCalls = 0
           /\ RecordsOf(r) = 0

C8_Witness ==
    /\ req[1].content = EmptyUpload /\ req[1].outcome.detail = "EmptyInput"
    /\ req[2].content = HugeUpload /\ req[2].outcome.detail = "TooLarge"

(* C9: load_audio invokes the transcoder exactly when the file it is given
   starts with the EBML signature 1A 45 DF A3, whatever the file is called. *)
C9_TranscodeIffSignature ==
    \A r \in Requests :
        req[r].loaded # NoFile
            => /\ req[r].txCalls \in {0, 1}
               /\ req[r].txCalls = 1 <=> StartsWith(req[r].loaded.hdr, WEBM_MAGIC)

C9_Witness ==
    /\ req[1].filename = WavName /\ req[1].loaded = WebmUpload
    /\ req[1].txCalls = 1 /\ req[1].tx = "ok" /\ Succeeded(1)
    /\ req[2].filename = WebmName /\ req[2].loaded = WavUpload
    /\ req[2].txCalls = 0 /\ Succeeded(2)

(* C10: the transcoder's failure modes (binary missing, non-zero exit,
   timeout) reach the caller of load_audio as different kinds of exception;
   a timeout has terminated the child process; the transcoder runs at most
   once per request. *)
C10_DistinctTranscoderErrors ==
    /\ \A r, q \in Requests :
          /\ req[r].tx \in TranscoderFailures
          /\ req[q].tx \in TranscoderFailures
          /\ req[r].tx # req[q].tx
          => req[r].ingestErr.type # req[q].ingestErr.type
    /\ \A r \in Requests :
          /\ req[r].tx = "timeout" => req[r].killed /\ Failed(r)
          /\ req[r].txCalls <= 1

(* C11: an upload with an accepted extension that cannot be decoded, or that
   decodes to zero samples, is answered with a corrupt-audio error of the
   client-error class (4xx), never with an internal error. *)
C11_CorruptAudioIsClientError ==
    \A r \in Requests :
        /\ Done(r) /\ req[r].kind = "predict"
        /\ req[r].ingestErr.cause \in {"decode", "empty_signal"}
        => req[r].outcome.status \in 400..499

(* C12: the body of an internal-error (500) answer of a prediction endpoint
   holds nothing of the message of the exception that caused it. *)
C12_NoExceptionTextInBody ==
    \A r \in Requests :
        /\ Done(r) /\ req[r].kind \in {"predict", "record"}
        /\ req[r].outcome.status = 500
        => req[r].outcome.cause = ""

(* C13: for a classifier output of any length, 0 to more than 6, a loaded
   classifier makes predict_emotion return, without raising, the six labels
   angry, disgust, fear, happy, neutral, sad in that order, the i-th with the
   i-th probability when the output has one and with 0 otherwise. *)
C13_SixLabelsPadded ==
    classify.pc = "classified" /\ svm_model = "loaded"
        => LET out == classify.result
               p   == classify.probabilities
           IN  /\ out.ok
               /\ [i \in DOMAIN out.emotion |-> out.emotion[i][1]]
                     = <<"angry", "disgust", "fear", "happy", "neutral", "sad">>
               /\ \A i \in 1..6 :
                     out.emotion[i][2] = IF i <= Len(p) THEN p[i] ELSE 0

C13_Witness ==
    /\ classify.pc = "classified" /\ svm_model = "loaded"
    /\ classify.probabilities = <<300, 700>>
    /\ classify.result.ok

(* C14: the primary emotion selected from a distribution is a label no other
   label exceeds in probability, the first such label in the order angry,
   disgust, fear, happy, neutral, sad, and every run on the same distribution
   selects the same one. *)
C14_PrimaryIsFirstMaximum ==
    classify.pc = "classified" =>
        \A k \in DOMAIN classify.primary :
            LET e == classify.result.emotion
                chosen == classify.primary[k]
            IN  \E i \in DOMAIN e :
                    /\ chosen = e[i]
                    /\ \A j \in DOMAIN e : e[j][2] <= e[i][2]
                    /\ \A j \in DOMAIN e : e[j][2] = e[i][2] => i <= j
                    /\ chosen = classify.primary[1]

C14_Witness ==
    /\ classify.pc = "classified"
    /\ classify.probabilities = <<300, 700, 0, 700, 700>>
    /\ Len(classify.primary) = RunsPerInput
    /\ classify.primary[RunsPerInput][1] = "disgust"

(* C15, as stated: processing_time is the time from the end of feature
   extraction (spectrogram generation) to the end of classification. *)
C15_TimerStartsAfterFeatures ==
    timing.pc = "saving"
        => timing.processing_time = timing.classified - timing.features_done

(* C15, amended: processing_time is the time from the entry of
   process_audio_for_prediction_with_storage, before spectrogram generation,
   to the end of classification; it spans feature extraction, embedding and
   classification, and is fixed before the persistence write is attempted. *)
C15_TimerSpansFeaturesToo ==
    /\ timing.pc = "saving"
          => /\ timing.processing_time = timing.classified - timing.entered
             /\ timing.entered <= timing.features_done
             /\ timing.save_called = NotYet
    /\ timing.pc = "raised" /\ timing.save_called # NotYet
          => /\ timing.processing_time = timing.classified - timing.entered
             /\ timing.classified <= timing.save_called

C15_Witness ==
    /\ timing.pc = "raised" /\ timing.save_called # NotYet
    /\ timing.features_done - timing.entered = 2
    /\ timing.classified - timing.features_done = 1
    /\ timing.processing_time = 3

(* C16: whatever the length of a non-empty waveform, generate_spectrogram
   returns an array of shape 150 x 120 x 1. *)
C16_ShapeIs150x120x1 ==
    spectrogram.pc = "generated" /\ spectrogram.signal.samples > 0
        => spectrogram.result.spectrogram.shape = <<150, 120, 1>>

C16_Witness ==
    /\ spectrogram.pc = "generated"
    /\ spectrogram.signal.samples = 1
    /\ spectrogram.result.spectrogram.shape = <<150, 120, 1>>

(* C17: the min-max normalization of generate_spectrogram never divides by
   zero: a constant resized image (a silent waveform) gives an output that is
   zero everywhere and holds no NaN; any other image gives values in [0,1]
   with both 0 and 1 among them. *)
C17_NormalizationGuarded ==
    spectrogram.pc = "generated" =>
        LET image == spectrogram.result.mel_spec_resized.values
            out   == spectrogram.result.spectrogram.values
        IN  /\ \A q \in out : q[2] # 0 /\ ~IsNaN(q)
            /\ Cardinality(image) = 1 => \A q \in out : q[1] = 0
            /\ Cardinality(image) > 1
                  => /\ \A q \in out : q[2] > 0 /\ 0 <= q[1] /\ q[1] <= q[2]
                     /\ \E q \in out : q[1] = 0
                     /\ \E q \in out : q[1] = q[2]

(* C18: a request is received only after the import of utils/constants.py
   has finished, with the extractor and the classifier each a loaded model or
   None; and no step taken while requests are served changes either
   reference, so every request observes the same two references. *)
C18_ModelsFixedBeforeServing ==
    /\ [](\A r \in Requests :
             req[r].pc # "idle"
                => /\ boot.pc = "serving"
                   /\ extractor \in {"loaded", "None"}
                   /\ svm_model \in {"loaded", "None"})
    /\ [][boot.pc = "serving"
            => extractor' = extractor /\ svm_model' = svm_model]_vars

C18_Witness ==
    /\ boot.pc = "serving"
    /\ extractor = "loaded" /\ svm_model = "loaded"
    /\ Succeeded(1) /\ req[1].kind = "record"
    /\ Succeeded(2) /\ req[2].kind = "predict"

(* C19: while a token has not expired and the user it was issued for exists
   and is active, verify_token_string answers that user's username and
   GET /auth/users/me with the token answers 200 with that user's own record
   (is_superuser true for the seeded administrator). *)
C19_TokenRoundTrip ==
    \A uid \in IssuedFor(auth.last.token) :
        LET u == auth.users[uid]
        IN  /\ u # NoUser /\ u.is_active
            /\ auth.now <= auth.last.token.exp
            => /\ auth.last.op = "verify"
                     => auth.last.status = 200 /\ auth.last.username = u.username
               /\ auth.last.op = "me"
                     => auth.last.status = 200 /\ auth.last.user = u

(* C20: for every identifier and every configured action, the calls of
   check_rate_limit that were admitted (is_limited = False) within any span
   of `window` seconds number at most `limit`, whether Redis answers or
   not. *)
C20_AtMostLimitPerWindow ==
    \A k \in Keys :
        \A t \in limiter.admitted[k] :
            Cardinality({u \in limiter.admitted[k] :
                            t - RATE_LIMITS[k[2]].window < u /\ u <= t})
                <= RATE_LIMITS[k[2]].limit

(* C21: every POST request to the emotion-prediction endpoint as mounted   *)
(* by the application, /audio/predict, is classified by                    *)
(* RateLimitingMiddleware as action "prediction" and counted against the   *)
(* prediction limit.                                                       *)
C21_MountedPredictIsCounted ==
    (limiter.last.path = AUDIO_PREDICT /\ limiter.last.method = "POST")
        => (limiter.last.action = "prediction" /\ limiter.last.counted)

(* C22: POST /auth/password-reset/request gives the same status code and   *)
(* body whether or not the submitted email belongs to a registered user.   *)
C22_ResetRequestSameAnswer ==
    auth.last.op = "request"
        => /\ auth.last.status = 200
           /\ auth.last.body = "If the email exists, a password reset link has been sent"

(* C25: a password-reset token is accepted by POST                         *)
(* /auth/password-reset/confirm at most once and only before its one-hour  *)
(* expiry.  A confirm that is accepted carries the newest token made for   *)
(* its user, less than an hour after the token was made, and clears the    *)
(* token and its expiry; no token is accepted twice; every other confirm   *)
(* (a token used before, expired, superseded or never made) fails with 400 *)
(* and leaves every password hash unchanged.                               *)
C25_TokenAcceptedOnceBeforeExpiry ==
    /\ \A i, j \in DOMAIN auth.accepted : auth.accepted[i] = auth.accepted[j] => i = j
    /\ auth.last.op = "confirm" =>
         LET token == auth.last.token
         IN  IF auth.last.status = 200
             THEN /\ token \in DOMAIN auth.minted
                  /\ auth.last.at < auth.minted[token].at + RESET_TOKEN_EXPIRE_MINUTES
                  /\ \A t \in DOMAIN auth.minted :
                        auth.minted[t].uid = auth.minted[token].uid => t <= token
                  /\ auth.accepted[Len(auth.accepted)] = token
                  /\ auth.users[auth.minted[token].uid].reset_token = NULL
                  /\ auth.users[auth.minted[token].uid].reset_token_expires = NULL
             ELSE /\ auth.last.status = 400
                  /\ \A i \in DOMAIN auth.users :
                        auth.users[i].hashed_password =
                            auth.last.before[i].hashed_password

\* A confirm changed a password, and a later confirm with the same token was
\* refused.
C25_Witness ==
    /\ auth.last.op = "confirm"
    /\ auth.last.status = 400
    /\ \E i \in DOMAIN auth.accepted : auth.accepted[i] = auth.last.token

(* C23: on both admin delete endpoints, a request of an admin whose target *)
(* id is the admin's own id is rejected with 400, a request for an id no   *)
(* user has is rejected with 404, and either leaves the users, predictions *)
(* and audio_files tables as they were.                                    *)
C23_SelfAndMissingRejected ==
    (auth.last.op \in {"auth_delete_user", "admin_delete_user"}
     /\ auth.last.current_user # NoUser)
        => /\ UserById(auth.last.before.users, auth.last.user_id) = NoUser
                => (auth.last.status = 404 /\ Tables = auth.last.before)
           /\ auth.last.user_id = auth.last.current_user.id
                => (auth.last.status = 400 /\ Tables = auth.last.before)

\* An admin who owns prediction and audio rows asked for their own deletion.
C23_Witness ==
    /\ auth.last.op \in {"auth_delete_user", "admin_delete_user"}
    /\ auth.last.current_user # NoUser
    /\ auth.last.user_id = auth.last.current_user.id
    /\ \E p \in auth.last.before.predictions : p.user_id = auth.last.user_id
    /\ \E f \in auth.last.before.audio_files : f.user_id = auth.last.user_id

(* C24: for a user with otp_enabled, a bearer-authenticated request to a   *)
(* path outside the OTP middleware's exclude list is passed on to its      *)
(* route handler only if it carries an X-OTP-Code that verifies against    *)
(* the user's OTP secret or an X-Backup-Code contained in the user's       *)
(* stored backup codes; every other such request is answered 401 and not   *)
(* passed on.                                                              *)
C24_HandlerOnlyAfterOtp ==
    \A r \in 1..NumOtpRequests :
        LET q == auth.reqs[r]
        IN  (q.pc # "idle" /\ q.seen # NoUser /\ q.seen.otp_enabled)
                => \/ verify_otp(q.seen.otp_secret, q.headers.otp_code, q.at)
                   \/ Contains(json_loads(q.seen.otp_backup_codes), q.headers.backup_code)
                   \/ (~q.passed /\ q.status = 401)

(* C26: each stored OTP backup code authorises at most one request.  No    *)
(* code is accepted twice for a user, an accepted code is no longer in the *)
(* user's stored list, the step that accepts a code removes that code and  *)
(* nothing else, and a step that accepts no code leaves every stored list  *)
(* as it was unless it is /otp/disable clearing it; this holds for every   *)
(* interleaving of the requests in flight.                                 *)
C26_BackupCodeSingleUse ==
    /\ [](/\ \A i, j \in DOMAIN auth.accepted :
                auth.accepted[i] = auth.accepted[j] => i = j
          /\ \A i \in DOMAIN auth.accepted :
                ~Contains(json_loads(auth.users[auth.accepted[i].uid].otp_backup_codes),
                          auth.accepted[i].code))
    /\ [][IF auth'.accepted # auth.accepted
          THEN LET a == auth'.accepted[Len(auth'.accepted)]
               IN  /\ Contains(json_loads(auth.users[a.uid].otp_backup_codes), a.code)
                   /\ auth'.users[a.uid].otp_backup_codes =
                         json_dumps(ListRemove(json_loads(auth.users[a.uid].otp_backup_codes),
                                               a.code))
                   /\ \A i \in UserIds \ {a.uid} :
                         auth'.users[i].otp_backup_codes = auth.users[i].otp_backup_codes
          ELSE \A i \in UserIds :
                  \/ auth'.users[i].otp_backup_codes = auth.users[i].otp_backup_codes
                  \/ /\ auth'.users[i].otp_backup_codes = NoText
                     /\ \E r \in 1..NumOtpRequests :
                           /\ auth.reqs[r].path = OTP_DISABLE
                           /\ auth'.reqs[r].status = 200]_vars

\* A backup code was accepted, and a later request with the same code was
\* answered 401.
C26_Witness ==
    \E r \in 1..NumOtpRequests, i \in DOMAIN auth.accepted :
        /\ auth.reqs[r].pc = "done"
        /\ auth.reqs[r].status = 401
        /\ auth.reqs[r].detail = "Invalid backup code"
        /\ auth.reqs[r].seen.id = auth.accepted[i].uid
        /\ auth.reqs[r].headers.backup_code = auth.accepted[i].code

(* C27: in every state reached through the OTP endpoints, otp_enabled      *)
(* implies that otp_secret and otp_backup_codes are set and that           *)
(* temp_otp_secret is empty; /otp/setup answers 400 when the user's row    *)
(* has otp_enabled, /otp/verify answers 400 when the row has no            *)
(* temp_otp_secret, and an /otp/disable that succeeds leaves otp_secret,   *)
(* otp_backup_codes and temp_otp_secret empty and otp_enabled false.       *)
C27_OtpFieldsConsistent ==
    /\ [](\A i \in UserIds :
            auth.users[i].otp_enabled
                => /\ auth.users[i].otp_secret # NoSecret
                   /\ auth.users[i].otp_backup_codes # NoText
                   /\ auth.users[i].temp_otp_secret = NoSecret)
    /\ [][\A r \in 1..NumOtpRequests :
            (auth.reqs[r].pc = "handler" /\ auth'.reqs[r].pc = "done")
                => LET uid == auth.reqs[r].current_user.id
                   IN  /\ (auth.reqs[r].path = OTP_SETUP /\ auth.users[uid].otp_enabled)
                              => auth'.reqs[r].status = 400
                       /\ (auth.reqs[r].path = OTP_VERIFY
                           /\ auth.users[uid].temp_otp_secret = NoSecret)
                              => auth'.reqs[r].status = 400
                       /\ (auth.reqs[r].path = OTP_DISABLE /\ auth'.reqs[r].status = 200)
                              => /\ ~auth'.users[uid].otp_enabled
                                 /\ auth'.users[uid].otp_secret = NoSecret
                                 /\ auth'.users[uid].otp_backup_codes = NoText
                                 /\ auth'.users[uid].temp_otp_secret = NoSecret]_vars

\* /otp/setup with the right password was refused because OTP is enabled,
\* and an /otp/disable has cleared another request's user.
C27_Witness ==
    \E r, d \in 1..NumOtpRequests :
        /\ auth.reqs[r].pc = "done"
        /\ auth.reqs[r].path = OTP_SETUP
        /\ auth.reqs[r].status = 400
        /\ auth.reqs[r].detail = "OTP is already enabled"
        /\ auth.reqs[d].pc = "done"
        /\ auth.reqs[d].path = OTP_DISABLE
        /\ auth.reqs[d].status = 200
        /\ ~auth.users[auth.reqs[d].current_user.id].otp_enabled

(* C28: the backup codes returned in the /auth/otp/setup response are the  *)
(* codes stored for the user when OTP is enabled: a setup request that     *)
(* passes the password check for a user without OTP answers 200 with a     *)
(* non-empty list of backup codes.                                         *)
C28_SetupReturnsBackupCodes ==
    \A r \in 1..NumOtpRequests :
        LET q == auth.reqs[r]
        IN  (q.pc = "done" /\ q.path = OTP_SETUP /\ q.current_user # NoUser
             /\ q.status # 400)
                => (q.status = 200 /\ q.backup_codes # <<>>)

====
